---- MODULE Spec2Model ----
(***************************************************************************)
(* Model of the framebuffer helpers of lib/igt_fb.c: tile geometry,        *)
(* stride/size calculation, buffer creation and the cairo view lifecycle.  *)
(*                                                                         *)
(* Two specifications share the variables:                                 *)
(*   SpecLayout  applies the layout functions to inputs drawn from         *)
(*               bounded sets (pure functions of device and arguments);    *)
(*   Spec        is the lifecycle of one struct igt_fb: creation, view     *)
(*               acquisition, drawing, release and removal.                *)
(*                                                                         *)
(* All sizes stay below 2^31 within the bounds, so unsigned 32-bit         *)
(* arithmetic coincides with integer arithmetic on every value computed.   *)
(***************************************************************************)
EXTENDS Integers, Sequences, FiniteSets, TLC

(***************************************************************************)
(* Bounds of the model.                                                    *)
(***************************************************************************)
\* dimensions 0..MaxDim are enumerated one by one
MaxDim == 3
\* dimensions 2^k - 1, 2^k, 2^k + 1 are enumerated for k in 1..MaxExp
MaxExp == 9

RECURSIVE Pow2(_)
Pow2(k) == IF k = 0 THEN 1 ELSE 2 * Pow2(k - 1)

Dims == (0..MaxDim) \cup UNION { {Pow2(k) - 1, Pow2(k), Pow2(k) + 1} : k \in 1..MaxExp }

(***************************************************************************)
(* Framebuffer modifiers and tiling constants.  The modifier codes are     *)
(* vendor-tagged 64-bit values (vendor << 56 | code); the vendor tag is    *)
(* kept as the hundreds digit so that modifiers and tilings are distinct   *)
(* values.                                                                 *)
(***************************************************************************)
LOCAL_DRM_FORMAT_MOD_NONE == 0
LOCAL_I915_FORMAT_MOD_X_TILED == 101
LOCAL_I915_FORMAT_MOD_Y_TILED == 102
LOCAL_I915_FORMAT_MOD_Yf_TILED == 103
Modifiers == { LOCAL_DRM_FORMAT_MOD_NONE, LOCAL_I915_FORMAT_MOD_X_TILED,
               LOCAL_I915_FORMAT_MOD_Y_TILED, LOCAL_I915_FORMAT_MOD_Yf_TILED }

I915_TILING_NONE == 0
I915_TILING_X == 1
I915_TILING_Y == 2
I915_TILING_Yf == 3

(***************************************************************************)
(* Devices: what the file descriptor answers to is_i915_device, intel_gen  *)
(* and IS_915.  A 915-class device is generation 3.                        *)
(***************************************************************************)
Devices ==
    { [i915 |-> FALSE, gen |-> 0, is915 |-> FALSE],
      [i915 |-> TRUE, gen |-> 2, is915 |-> FALSE],
      [i915 |-> TRUE, gen |-> 3, is915 |-> TRUE],
      [i915 |-> TRUE, gen |-> 3, is915 |-> FALSE],
      [i915 |-> TRUE, gen |-> 4, is915 |-> FALSE],
      [i915 |-> TRUE, gen |-> 9, is915 |-> FALSE] }

intel_gen(d) == d.gen
IS_915(d) == d.is915
is_i915_device(d) == d.i915

(***************************************************************************)
(* The format registry.                                                    *)
(***************************************************************************)
DRM_FORMAT_NV12 == "NV12"

format_desc ==
    [ RGB565      |-> [drm_id |-> "RGB565", name |-> "RGB565",
                       bpp |-> 16, depth |-> 16,
                       planes |-> 0, plane_bpp |-> <<0, 0, 0, 0>>],
      XRGB8888    |-> [drm_id |-> "XRGB8888", name |-> "XRGB8888",
                       bpp |-> 32, depth |-> 24,
                       planes |-> 0, plane_bpp |-> <<0, 0, 0, 0>>],
      XRGB2101010 |-> [drm_id |-> "XRGB2101010", name |-> "XRGB2101010",
                       bpp |-> 32, depth |-> 30,
                       planes |-> 0, plane_bpp |-> <<0, 0, 0, 0>>],
      ARGB8888    |-> [drm_id |-> "ARGB8888", name |-> "ARGB8888",
                       bpp |-> 32, depth |-> 32,
                       planes |-> 0, plane_bpp |-> <<0, 0, 0, 0>>],
      NV12        |-> [drm_id |-> "NV12", name |-> "NV12",
                       bpp |-> 32, depth |-> -1,
                       planes |-> 2, plane_bpp |-> <<8, 16, 0, 0>>] ]

Formats == DOMAIN format_desc

\* a format code the registry does not hold (its entry is commented out)
UnknownFormat == "RGB888"

\* the NULL that lookup_drm_format returns when no entry matches
NoFormat == [drm_id |-> "none", name |-> "none", bpp |-> 0, depth |-> 0,
             planes |-> 0,
             plane_bpp |-> <<0, 0, 0, 0>>]

lookup_drm_format(drm_format) ==
    IF drm_format \in Formats THEN format_desc[drm_format] ELSE NoFormat

\* ALIGN(v, a) for a power of two a: (v + a - 1) & ~(a - 1)
ALIGN(v, a) == (v + a - 1) - ((v + a - 1) % a)

(***************************************************************************)
(* igt_get_fb_tile_size.  st is "ok" when the sizes are returned, "skip"   *)
(* when igt_require_intel leaves the test, "abort" on igt_assert(false).   *)
(***************************************************************************)
TileOk(w, h) == [st |-> "ok", w |-> w, h |-> h]
TileFail(how) == [st |-> how, w |-> 0, h |-> 0]

\* case LOCAL_I915_FORMAT_MOD_X_TILED
TileSizeX(d) ==
    IF ~is_i915_device(d) THEN TileFail("skip")
    ELSE IF intel_gen(d) = 2 THEN TileOk(128, 16)
    ELSE TileOk(512, 8)

\* a Y tile that ignores the 915 class
TileSizeY_no915(d) ==
    IF ~is_i915_device(d) THEN TileFail("skip")
    ELSE IF intel_gen(d) = 2 THEN TileOk(128, 16)
    ELSE TileOk(128, 32)

\* case LOCAL_I915_FORMAT_MOD_Y_TILED
TileSizeY(d) ==
    IF ~is_i915_device(d) THEN TileFail("skip")
    ELSE IF intel_gen(d) = 2 THEN TileOk(128, 16)
    ELSE IF IS_915(d) THEN TileOk(512, 8)
    ELSE TileOk(128, 32)

\* case LOCAL_I915_FORMAT_MOD_Yf_TILED
TileSizeYf(d, fb_bpp) ==
    IF ~is_i915_device(d) THEN TileFail("skip")
    ELSE CASE fb_bpp = 8 -> TileOk(64, 64)
           [] fb_bpp \in {16, 32} -> TileOk(128, 32)
           [] fb_bpp \in {64, 128} -> TileOk(256, 16)
           [] OTHER -> TileFail("abort")

igt_get_fb_tile_size(d, tiling, fb_bpp) ==
    CASE tiling = LOCAL_DRM_FORMAT_MOD_NONE -> TileOk(64, 1)
      [] tiling = LOCAL_I915_FORMAT_MOD_X_TILED -> TileSizeX(d)
      [] tiling = LOCAL_I915_FORMAT_MOD_Y_TILED -> TileSizeY(d)
      [] tiling = LOCAL_I915_FORMAT_MOD_Yf_TILED -> TileSizeYf(d, fb_bpp)
      [] OTHER -> TileFail("abort")

(***************************************************************************)
(* planar_width, planar_stride, planar_height; plane is 0-based as in C.   *)
(***************************************************************************)
planar_width(format, width, plane) ==
    IF format.drm_id = DRM_FORMAT_NV12 /\ plane = 1
    THEN (width + 1) \div 2
    ELSE width

planar_stride(format, width, plane) ==
    planar_width(format, width, plane) * (format.plane_bpp[plane + 1] \div 8)

\* a chroma height that rounds down
planar_height_floor(format, height, plane) ==
    IF format.drm_id = DRM_FORMAT_NV12 /\ plane = 1
    THEN height \div 2
    ELSE height

planar_height(format, height, plane) ==
    IF format.drm_id = DRM_FORMAT_NV12 /\ plane = 1
    THEN (height + 1) \div 2
    ELSE height

Max(a, b) == IF a < b THEN b ELSE a

ZeroOffsets == <<0, 0, 0, 0>>

LayoutFail(how) ==
    [st |-> how, stride |-> 0, size |-> 0, offsets |-> ZeroOffsets]

(***************************************************************************)
(* calc_fb_size_planar.  The first loop takes the largest tile-aligned     *)
(* plane stride, the second accumulates offsets and size in plane order,   *)
(* the third clears the unused offset slots.  offsets are the values the   *)
(* function stores when the caller passes an array.                        *)
(***************************************************************************)
RECURSIVE PlanarStrideLoop(_, _, _, _, _, _)
PlanarStrideLoop(d, width, format, tiling, plane, stride) ==
    IF plane >= format.planes THEN stride
    ELSE LET t == igt_get_fb_tile_size(d, tiling, format.plane_bpp[plane + 1])
             plane_stride == ALIGN(planar_stride(format, width, plane), t.w)
         IN PlanarStrideLoop(d, width, format, tiling, plane + 1,
                             Max(stride, plane_stride))

\* a plane contribution that forgets the tile height
PlaneBytes_unaligned(stride, format, height, plane, t) ==
    stride * planar_height(format, height, plane)

\* what one plane adds to the size: stride * ALIGN(plane height, tile height)
PlaneBytes(stride, format, height, plane, t) ==
    stride * ALIGN(planar_height(format, height, plane), t.h)

RECURSIVE PlanarSizeLoop(_, _, _, _, _, _, _, _)
PlanarSizeLoop(d, height, format, tiling, stride, plane, size, offsets) ==
    IF plane >= format.planes
    THEN [size |-> size,
          offsets |-> [p \in 1..4 |-> IF p - 1 < plane THEN offsets[p] ELSE 0]]
    ELSE LET t == igt_get_fb_tile_size(d, tiling, format.plane_bpp[plane + 1])
         IN PlanarSizeLoop(d, height, format, tiling, stride, plane + 1,
                size + PlaneBytes(stride, format, height, plane, t),
                [offsets EXCEPT ![plane + 1] = size])

PlanarTileStatus(d, format, tiling) ==
    LET sts == { igt_get_fb_tile_size(d, tiling, format.plane_bpp[p]).st :
                   p \in 1..format.planes }
    IN IF "skip" \in sts THEN "skip"
       ELSE IF "abort" \in sts THEN "abort"
       ELSE "ok"

calc_fb_size_planar(d, width, height, format, tiling) ==
    IF PlanarTileStatus(d, format, tiling) # "ok"
    THEN LayoutFail(PlanarTileStatus(d, format, tiling))
    ELSE LET stride == PlanarStrideLoop(d, width, format, tiling, 0, 0)
             r == PlanarSizeLoop(d, height, format, tiling, stride, 0, 0,
                                 ZeroOffsets)
         IN [st |-> "ok", stride |-> stride, size |-> r.size,
             offsets |-> r.offsets]

(***************************************************************************)
(* calc_fb_size_packed.  The legacy path doubles the stride from 512 and   *)
(* the size from 1 MiB.                                                    *)
(***************************************************************************)
RECURSIVE DoubleUntil(_, _)
DoubleUntil(x, v) == IF x < v THEN DoubleUntil(2 * x, v) ELSE x

LegacyPath(d, tiling) ==
    tiling # LOCAL_DRM_FORMAT_MOD_NONE /\ intel_gen(d) <= 3

\* a byte width that takes bits for bytes
ByteWidth_bits(width, format) == width * format.bpp

\* int byte_width = width * (format->bpp / 8)
ByteWidth(width, format) == width * (format.bpp \div 8)

\* a legacy stride that is only rounded up to a multiple of 512
LegacyStride_aligned(byte_width) == ALIGN(Max(byte_width, 512), 512)

\* for (stride = 512; stride < v; stride *= 2)
LegacyStride(byte_width) == DoubleUntil(512, byte_width)

\* for (size = 1024*1024; size < v; size *= 2) with v = stride * height
LegacySize(stride, height) == DoubleUntil(1024 * 1024, stride * height)

\* a size that forgets the tile height
TiledSize_unaligned(stride, height, t) == stride * height

\* size = stride * ALIGN(height, tile_height)
TiledSize(stride, height, t) == stride * ALIGN(height, t.h)

calc_fb_size_packed(d, width, height, format, tiling) ==
    LET byte_width == ByteWidth(width, format)
        t == igt_get_fb_tile_size(d, tiling, format.bpp)
    IN IF t.st # "ok" THEN LayoutFail(t.st)
       ELSE IF LegacyPath(d, tiling)
       THEN LET stride == LegacyStride(byte_width)
                size == LegacySize(stride, height)
            IN [st |-> "ok", stride |-> stride, size |-> size,
                offsets |-> ZeroOffsets]
       ELSE LET stride == ALIGN(byte_width, t.w)
                size == TiledSize(stride, height, t)
            IN [st |-> "ok", stride |-> stride, size |-> size,
                offsets |-> ZeroOffsets]

(***************************************************************************)
(* igt_calc_fb_size: dispatch on the number of planes.                     *)
(***************************************************************************)
igt_calc_fb_size(d, width, height, drm_format, tiling) ==
    LET format == lookup_drm_format(drm_format)
    IN IF format = NoFormat THEN LayoutFail("abort")
       ELSE IF format.planes > 1
       THEN calc_fb_size_planar(d, width, height, format, tiling)
       ELSE calc_fb_size_packed(d, width, height, format, tiling)

(***************************************************************************)
(* State.                                                                  *)
(*   dev    the device behind the file descriptor                          *)
(*   call   the last library call and its arguments                        *)
(*   ret    what a layout function returned (SpecLayout)                   *)
(*   halt   "run", or how the test process ended: "skip" (igt_require),    *)
(*          "abort" (igt_assert, failed ioctl), "crash" (memory fault)     *)
(*   fb     the caller's struct igt_fb                                     *)
(*   bos    the live gem buffer objects, by handle                         *)
(*   kms    the ids of the live KMS framebuffer objects                    *)
(*   maps   the live CPU mappings, by address                              *)
(*   surfs  the live cairo surfaces, by address                            *)
(*   ctxs   the live cairo contexts and the surface each one targets       *)
(*   log    the collaborator calls made by the last library call           *)
(*   nviews the number of cairo surfaces created so far                    *)
(***************************************************************************)
VARIABLES dev, call, ret, halt, fb, bos, kms, maps, surfs, ctxs, log, nviews

lifeVars == <<halt, fb, bos, kms, maps, surfs, ctxs, log, nviews>>
vars == <<dev, call, ret, halt, fb, bos, kms, maps, surfs, ctxs, log, nviews>>

NoCall == [op |-> "none", width |-> 0, height |-> 0, format |-> "none",
           tiling |-> 0, bpp |-> 0, depth |-> 0, size |-> 0, stride |-> 0,
           cr |-> 0]
NoRet == [st |-> "none", stride |-> 0, size |-> 0, offsets |-> ZeroOffsets,
          w |-> 0, h |-> 0, val |-> 0]

\* a modifier no case of the switch statements knows
UnknownModifier == 199
\* bits per pixel handed to igt_get_fb_tile_size; 24 is in no Yf class
Bpps == {8, 16, 24, 32, 64, 128}

LayoutRet(r) == [st |-> r.st, stride |-> r.stride, size |-> r.size,
                 offsets |-> r.offsets, w |-> 0, h |-> 0, val |-> 0]
TileRet(t) == [st |-> t.st, stride |-> 0, size |-> 0, offsets |-> ZeroOffsets,
               w |-> t.w, h |-> t.h, val |-> 0]
\* what a lookup returned, or that it ended in a failed igt_assert
ValueRet(st, v) == [NoRet EXCEPT !.st = st, !.val = v]

NULL == 0

\* struct igt_fb before igt_create_fb_with_bo_size fills it
NoFb ==
    [gem_handle |-> 0, size |-> 0, stride |-> 0, offsets |-> ZeroOffsets,
     is_dumb |-> FALSE, width |-> 0, height |-> 0, tiling |-> 0,
     drm_format |-> "none", fb_id |-> 0, num_planes |-> 0,
     plane_bpp |-> <<0, 0, 0, 0>>, plane_width |-> <<0, 0, 0, 0>>,
     plane_height |-> <<0, 0, 0, 0>>, cairo_surface |-> NULL]

Init ==
    /\ dev \in Devices
    /\ call = NoCall
    /\ ret = NoRet
    /\ halt = "run"
    /\ fb = NoFb
    /\ bos = <<>>
    /\ kms = {}
    /\ maps = <<>>
    /\ surfs = <<>>
    /\ ctxs = <<>>
    /\ log = <<>>
    /\ nviews = 0

InitLayout == Init

\* Each layout function is a pure function of the device and its arguments:
\* a behaviour of SpecLayout is one call, on arguments drawn from the bounded
\* sets.

\* igt_get_fb_tile_size(fd, tiling, fb_bpp, &w, &h)
GetFbTileSize ==
    /\ call.op = "none"
    /\ \E tiling \in Modifiers \cup {UnknownModifier}, fb_bpp \in Bpps :
           /\ call' = [NoCall EXCEPT !.op = "igt_get_fb_tile_size",
                                     !.tiling = tiling, !.bpp = fb_bpp]
           /\ ret' = TileRet(igt_get_fb_tile_size(dev, tiling, fb_bpp))
           /\ UNCHANGED <<dev, lifeVars>>

\* igt_calc_fb_size(fd, width, height, drm_format, tiling, &size, &stride)
CalcFbSize ==
    /\ call.op = "none"
    /\ \E width \in Dims, height \in Dims,
          drm_format \in Formats \cup {UnknownFormat},
          tiling \in Modifiers \cup {UnknownModifier} :
           /\ call' = [NoCall EXCEPT !.op = "igt_calc_fb_size",
                                     !.width = width, !.height = height,
                                     !.format = drm_format, !.tiling = tiling]
           /\ ret' = LayoutRet(igt_calc_fb_size(dev, width, height, drm_format,
                                                tiling))
           /\ UNCHANGED <<dev, lifeVars>>

\* calc_fb_size_planar with an offsets array, as create_bo_for_fb calls it
CalcFbSizePlanar ==
    /\ call.op = "none"
    /\ \E width \in Dims, height \in Dims, tiling \in Modifiers,
          drm_format \in { f \in Formats : format_desc[f].planes > 1 } :
           /\ call' = [NoCall EXCEPT !.op = "calc_fb_size_planar",
                                     !.width = width, !.height = height,
                                     !.format = drm_format, !.tiling = tiling]
           /\ ret' = LayoutRet(calc_fb_size_planar(dev, width, height,
                                   lookup_drm_format(drm_format), tiling))
           /\ UNCHANGED <<dev, lifeVars>>

NextLayout == GetFbTileSize \/ CalcFbSize \/ CalcFbSizePlanar

SpecLayout == InitLayout /\ [][NextLayout]_vars

(***************************************************************************)
(* Properties of the layout functions.                                     *)
(***************************************************************************)
\* r is the smallest multiple of m that is >= x
IsRoundUp(r, x, m) == r % m = 0 /\ r >= x /\ r - x < m

IsPowerOfTwo(n) == \E k \in 0..30 : n = Pow2(k)

CeilHalf(x) == (x \div 2) + (x % 2)

SinglePlane(f) == f \in Formats /\ format_desc[f].planes <= 1

\* width * bpp / 8 of the call
CallByteWidth == (call.width * format_desc[call.format].bpp) \div 8

PackedCall == call.op = "igt_calc_fb_size" /\ SinglePlane(call.format)

\* C1: with linear tiling every single-plane format gets stride ==
\* width*bpp/8 rounded up to a multiple of 64 and size == stride * height,
\* on every device.
C1_LinearStrideAndSize ==
    (PackedCall /\ call.tiling = LOCAL_DRM_FORMAT_MOD_NONE) =>
        /\ ret.st = "ok"
        /\ IsRoundUp(ret.stride, CallByteWidth, 64)
        /\ ret.size = ret.stride * call.height

C1_Witness ==
    /\ PackedCall /\ call.tiling = LOCAL_DRM_FORMAT_MOD_NONE
    /\ call.format = "RGB565" /\ call.width = 33 /\ call.height = 3
    /\ ret.stride = 128 /\ ret.size = 384

\* the legacy path: tiled, generation <= 3, and the tile size was returned
LegacyCall == PackedCall /\ LegacyPath(dev, call.tiling) /\ ret.st = "ok"

\* C2: on the legacy path stride is a power of two >= 512 and >= the byte
\* width, and size is a power of two >= 1 MiB and >= stride * height.
C2_LegacyPowerOfTwo ==
    LegacyCall =>
        /\ IsPowerOfTwo(ret.stride)
        /\ ret.stride >= 512
        /\ ret.stride >= CallByteWidth
        /\ IsPowerOfTwo(ret.size)
        /\ ret.size >= 1024 * 1024
        /\ ret.size >= ret.stride * call.height

C2_Witness ==
    /\ LegacyCall
    /\ call.width = 513 /\ call.format = "XRGB8888" /\ call.height = 257
    /\ ret.stride = 4096 /\ ret.size = 2 * 1024 * 1024

\* C3: off the legacy path stride is the smallest multiple of the tile width
\* >= the byte width and size is stride * (height rounded up to the tile
\* height), for the tile igt_get_fb_tile_size returns.
C3_TiledStrideAndSize ==
    (PackedCall /\ ~LegacyPath(dev, call.tiling) /\ ret.st = "ok") =>
        LET t == igt_get_fb_tile_size(dev, call.tiling,
                                      format_desc[call.format].bpp)
        IN /\ t.st = "ok"
           /\ IsRoundUp(ret.stride, CallByteWidth, t.w)
           /\ \E rows \in 0..(call.height + t.h) :
                 /\ IsRoundUp(rows, call.height, t.h)
                 /\ ret.size = ret.stride * rows

C3_Witness ==
    /\ PackedCall /\ ~LegacyPath(dev, call.tiling) /\ ret.st = "ok"
    /\ call.tiling = LOCAL_I915_FORMAT_MOD_Y_TILED
    /\ call.format = "XRGB8888" /\ call.width = 33 /\ call.height = 33
    /\ ret.stride = 256 /\ ret.size = 256 * 64

\* C4, spelled out for the two planes of NV12: bytes per row and rows of
\* plane p (0-based), and the tile of plane p
Nv12RowBytes(p) == IF p = 0 THEN call.width ELSE 2 * CeilHalf(call.width)
Nv12Rows(p) == IF p = 0 THEN call.height ELSE CeilHalf(call.height)
Nv12Tile(p) == igt_get_fb_tile_size(dev, call.tiling, IF p = 0 THEN 8 ELSE 16)
Nv12AlignedStride(p) ==
    CHOOSE r \in 0..(Nv12RowBytes(p) + Nv12Tile(p).w) :
        IsRoundUp(r, Nv12RowBytes(p), Nv12Tile(p).w)
Nv12AlignedRows(p) ==
    CHOOSE r \in 0..(Nv12Rows(p) + Nv12Tile(p).h) :
        IsRoundUp(r, Nv12Rows(p), Nv12Tile(p).h)

PlanarCall ==
    call.op = "calc_fb_size_planar" /\ call.format = "NV12" /\ ret.st = "ok"

\* C4: NV12 gets one stride, the largest tile-aligned plane stride; offsets
\* accumulate stride * tile-aligned plane height in plane order, size is the
\* sum over both planes, and the two unused offset slots are 0.
C4_PlanarLayout ==
    PlanarCall =>
        /\ ret.stride = Max(Nv12AlignedStride(0), Nv12AlignedStride(1))
        /\ ret.offsets[1] = 0
        /\ ret.offsets[2] = ret.stride * Nv12AlignedRows(0)
        /\ ret.size = ret.stride * Nv12AlignedRows(0)
                      + ret.stride * Nv12AlignedRows(1)
        /\ ret.offsets[3] = 0
        /\ ret.offsets[4] = 0

C4_Witness ==
    /\ PlanarCall
    /\ call.tiling = LOCAL_I915_FORMAT_MOD_Y_TILED /\ IS_915(dev) = FALSE
    /\ intel_gen(dev) = 9
    /\ call.width = 9 /\ call.height = 9
    /\ ret.stride = 128 /\ ret.offsets = <<0, 4096, 0, 0>> /\ ret.size = 8192

\* the tile size table of C6
TileTable(d, tiling, fb_bpp) ==
    CASE tiling = LOCAL_DRM_FORMAT_MOD_NONE -> <<64, 1>>
      [] tiling = LOCAL_I915_FORMAT_MOD_X_TILED ->
            IF d.gen = 2 THEN <<128, 16>> ELSE <<512, 8>>
      [] tiling = LOCAL_I915_FORMAT_MOD_Y_TILED ->
            IF d.gen = 2 THEN <<128, 16>>
            ELSE IF d.is915 THEN <<512, 8>> ELSE <<128, 32>>
      [] tiling = LOCAL_I915_FORMAT_MOD_Yf_TILED ->
            IF fb_bpp = 8 THEN <<64, 64>>
            ELSE IF fb_bpp \in {16, 32} THEN <<128, 32>>
            ELSE <<256, 16>>

TileCall == call.op = "igt_get_fb_tile_size"

\* the function returns: known modifier, an Intel device unless linear, and
\* for Yf a bpp of the three classes
TileCallReturns ==
    /\ call.tiling \in Modifiers
    /\ call.tiling # LOCAL_DRM_FORMAT_MOD_NONE => dev.i915
    /\ call.tiling = LOCAL_I915_FORMAT_MOD_Yf_TILED =>
          call.bpp \in {8, 16, 32, 64, 128}

\* C6: igt_get_fb_tile_size returns exactly the table: linear 64x1; X 128x16
\* on generation 2, else 512x8; Y 128x16 on generation 2, 512x8 on a
\* 915-class device, else 128x32; Yf 64x64, 128x32 or 256x16 by bpp class.
C6_TileSizeTable ==
    TileCall =>
        /\ TileCallReturns <=> ret.st = "ok"
        /\ ret.st = "ok" =>
              <<ret.w, ret.h>> = TileTable(dev, call.tiling, call.bpp)

C6_Witness ==
    /\ TileCall /\ call.tiling = LOCAL_I915_FORMAT_MOD_Y_TILED
    /\ dev.is915 /\ ret.st = "ok" /\ ret.w = 512 /\ ret.h = 8

(***************************************************************************)
(* The lifecycle of a framebuffer and its cairo view.                      *)
(*                                                                         *)
(* A library call is a sequence of collaborator calls (gem, KMS, mmap,     *)
(* cairo, the copy engine).  Each collaborator call is an operator from    *)
(* world to world, a world being the record of the lifecycle variables;    *)
(* a library call composes them in program order.  Once the process has    *)
(* ended (halt # "run") the remaining steps change nothing.                *)
(*                                                                         *)
(* The contents of a buffer are represented by one pixel of a uniformly    *)
(* coloured image: <<R, G, B>> for the packed formats and for the packed   *)
(* RGB buffer of a view, <<Y, Cb, Cr>> for NV12.                           *)
(***************************************************************************)
\* bounds of the lifecycle
\* framebuffer widths and heights are 1..MaxFbDim
MaxFbDim == 2
\* at most MaxViews cairo surfaces are created in a behaviour
MaxViews == 2
\* at most MaxCtx cairo contexts are live at a time
MaxCtx == 2

FbDims == 1..MaxFbDim

ZeroPx == <<0, 0, 0>>
\* the colour a test draws
DrawColours == { <<200, 100, 50>> }

\* nonzero bo_size and bo_stride arguments that are large enough for every
\* framebuffer of the model and valid for every tiling
BoSizeArg == 4 * 1024 * 1024
BoStrideArg == 4 * 1024

\* what malloc'ed memory may hold where the offsets array lies
StaleOffsets ==
    { <<0, 0, 0, 0>>, <<64, 0, 0, 64>>, <<1024 * 1024, 64, 0, 0>> }

World ==
    [halt |-> halt, fb |-> fb, bos |-> bos, kms |-> kms, maps |-> maps,
     surfs |-> surfs, ctxs |-> ctxs, log |-> log, nviews |-> nviews]

Becomes(w) ==
    /\ halt' = w.halt
    /\ fb' = w.fb
    /\ bos' = w.bos
    /\ kms' = w.kms
    /\ maps' = w.maps
    /\ surfs' = w.surfs
    /\ ctxs' = w.ctxs
    /\ log' = w.log
    /\ nviews' = w.nviews

Running(w) == w.halt = "run"
Stop(w, how) == IF Running(w) THEN [w EXCEPT !.halt = how] ELSE w
Ev(e, a) == [e |-> e, a |-> a]
Emit(w, e, a) == [w EXCEPT !.log = Append(@, Ev(e, a))]

\* the kernel and the allocator hand out the lowest free id
LowestFree(S) ==
    CHOOSE i \in 1..(Cardinality(S) + 1) :
        i \notin S /\ \A j \in 1..(i - 1) : j \in S
Without(f, k) == [x \in (DOMAIN f) \ {k} |-> f[x]]

(***************************************************************************)
(* gem buffer objects: a fresh object is zero-filled.  px is the image at  *)
(* the object's own plane offsets, stray what a copy put elsewhere.        *)
(***************************************************************************)
NewHandle(w) == LowestFree(DOMAIN w.bos)

gem_create(w, size) ==
    IF ~Running(w) THEN w
    ELSE IF size = 0 THEN Stop(Emit(w, "gem_create", 0), "abort")
    ELSE Emit([w EXCEPT !.bos = @ @@ (NewHandle(w) :>
                  [size |-> size, stride |-> 0, tiling |-> I915_TILING_NONE,
                   dumb |-> FALSE, px |-> ZeroPx, stray |-> ZeroPx])],
              "gem_create", NewHandle(w))

\* igt_fb_mod_to_tiling; -1 stands for igt_assert(0)
igt_fb_mod_to_tiling(modifier) ==
    CASE modifier = LOCAL_DRM_FORMAT_MOD_NONE -> I915_TILING_NONE
      [] modifier = LOCAL_I915_FORMAT_MOD_X_TILED -> I915_TILING_X
      [] modifier = LOCAL_I915_FORMAT_MOD_Y_TILED -> I915_TILING_Y
      [] modifier = LOCAL_I915_FORMAT_MOD_Yf_TILED -> I915_TILING_Yf
      [] OTHER -> -1

gem_set_tiling(w, handle, tiling, stride) ==
    IF ~Running(w) THEN w
    ELSE IF tiling < 0 \/ handle \notin DOMAIN w.bos
    THEN Stop(Emit(w, "gem_set_tiling", handle), "abort")
    ELSE Emit([w EXCEPT !.bos[handle].tiling = tiling,
                        !.bos[handle].stride = stride],
              "gem_set_tiling", handle)

gem_close(w, handle) ==
    IF ~Running(w) THEN w
    ELSE IF handle \notin DOMAIN w.bos
    THEN Stop(Emit(w, "gem_close", handle), "abort")
    ELSE Emit([w EXCEPT !.bos = Without(@, handle)], "gem_close", handle)

gem_set_domain(w, handle) ==
    IF ~Running(w) THEN w
    ELSE IF handle \notin DOMAIN w.bos
    THEN Stop(Emit(w, "gem_set_domain", handle), "abort")
    ELSE Emit(w, "gem_set_domain", handle)

gem_sync(w, handle) ==
    IF ~Running(w) THEN w
    ELSE IF handle \notin DOMAIN w.bos
    THEN Stop(Emit(w, "gem_sync", handle), "abort")
    ELSE Emit(w, "gem_sync", handle)

(***************************************************************************)
(* CPU mappings: of a buffer object (gem_mmap__gtt, gem_mmap__cpu,         *)
(* kmstest_dumb_map_buffer) or anonymous (mmap).                           *)
(***************************************************************************)
NewMap(w) == LowestFree(DOMAIN w.maps)

gem_mmap(w, how, handle, size) ==
    IF ~Running(w) THEN w
    ELSE IF handle \notin DOMAIN w.bos THEN Stop(Emit(w, how, handle), "abort")
    ELSE Emit([w EXCEPT !.maps = @ @@ (NewMap(w) :>
                  [bo |-> handle, size |-> size, px |-> ZeroPx])],
              how, NewMap(w))

mmap_anonymous(w, size) ==
    IF ~Running(w) THEN w
    ELSE Emit([w EXCEPT !.maps = @ @@ (NewMap(w) :>
                  [bo |-> 0, size |-> size, px |-> ZeroPx])],
              "mmap", NewMap(w))

\* munmap of an address that is not mapped changes nothing
gem_munmap(w, map) ==
    IF ~Running(w) THEN w
    ELSE IF map \notin DOMAIN w.maps THEN Emit(w, "gem_munmap", map)
    ELSE Emit([w EXCEPT !.maps = Without(@, map)], "gem_munmap", map)

munmap(w, map) ==
    IF ~Running(w) THEN w
    ELSE IF map \notin DOMAIN w.maps THEN Emit(w, "munmap", map)
    ELSE Emit([w EXCEPT !.maps = Without(@, map)], "munmap", map)

\* a read or write through an address that is not mapped faults
read_map(w, map) ==
    IF map \notin DOMAIN w.maps THEN ZeroPx
    ELSE IF w.maps[map].bo = 0 THEN w.maps[map].px
    ELSE IF w.maps[map].bo \in DOMAIN w.bos THEN w.bos[w.maps[map].bo].px
    ELSE ZeroPx

write_map(w, map, px) ==
    IF ~Running(w) THEN w
    ELSE IF map \notin DOMAIN w.maps THEN Stop(w, "crash")
    ELSE IF w.maps[map].bo = 0 THEN [w EXCEPT !.maps[map].px = px]
    ELSE IF w.maps[map].bo \in DOMAIN w.bos
    THEN [w EXCEPT !.bos[w.maps[map].bo].px = px]
    ELSE w

(***************************************************************************)
(* create_bo_for_fb.  The result carries the world after the call, the     *)
(* returned handle (0 when the call did not return), what *size_ret,       *)
(* *stride_ret and *is_dumb received, and the contents of the caller's     *)
(* offsets array after the call (offsets is its contents before the call). *)
(***************************************************************************)
\* kmstest_dumb_create: pitch and size as the driver computes them
DumbStride(width, bpp) == ALIGN(width * (bpp \div 8), 64)
DumbSize(width, height, bpp) == ALIGN(DumbStride(width, bpp) * height, 4096)

kmstest_dumb_create(w, width, height, bpp) ==
    IF ~Running(w) THEN w
    ELSE IF width = 0 \/ height = 0
    THEN Stop(Emit(w, "kmstest_dumb_create", 0), "abort")
    ELSE Emit([w EXCEPT !.bos = @ @@ (NewHandle(w) :>
                  [size |-> DumbSize(width, height, bpp),
                   stride |-> DumbStride(width, bpp),
                   tiling |-> I915_TILING_NONE, dumb |-> TRUE,
                   px |-> ZeroPx, stray |-> ZeroPx])],
              "kmstest_dumb_create", NewHandle(w))

\* component formats have a different zero point: memset(ptr, 16, offsets[1])
\* and memset(ptr + offsets[1], 0x80, (height + 1)/2 * stride)
Nv12ZeroPx == <<16, 128, 128>>

\* A NULL offsets pointer.  fault is what an access through it does in the
\* build at hand: "crash" (the process faults) or "run" (the access goes
\* unnoticed: a store is lost, a load yields 0).
NullOffsets(fault) == <<fault>>
IsNullOffsets(offsets) == Len(offsets) = 1
\* the world after an access through offsets; an access through the NULL
\* pointer is recorded
Deref(w, offsets) ==
    IF ~IsNullOffsets(offsets) \/ ~Running(w) THEN w
    ELSE IF offsets[1] = "crash"
    THEN Stop(Emit(w, "null_offsets", 0), "crash")
    ELSE Emit(w, "null_offsets", 0)
\* offsets[1], the start of the second plane, as the code loads it
SecondPlaneAt(offsets) == IF IsNullOffsets(offsets) THEN 0 ELSE offsets[2]
\* what the two memsets leave in a pixel: 16 below offsets[1], 0x80 from there
Nv12Fill(offsets) ==
    IF SecondPlaneAt(offsets) = 0 THEN <<128, 0, 0>> ELSE Nv12ZeroPx

\* memset(offsets, 0, 4 * sizeof(*offsets))
PackedOffsets(offsets) ==
    IF IsNullOffsets(offsets) THEN offsets ELSE ZeroOffsets

\* a test that looks at the tiling and the planes only
WantsGemBo_tiled(format, tiling, size, stride) ==
    tiling # 0 \/ format.planes > 1

\* if (tiling || size || stride || format->planes > 1)
WantsGemBo(format, tiling, size, stride) ==
    tiling # 0 \/ size # 0 \/ stride # 0 \/ format.planes > 1

BoResult(w, bo, size, stride, offsets, is_dumb) ==
    [w |-> w, bo |-> IF Running(w) THEN bo ELSE 0, size |-> size,
     stride |-> stride, offsets |-> offsets, is_dumb |-> is_dumb]

\* an allocation that takes the given size only together with a given stride
create_bo_for_fb_both(w, d, width, height, format, tiling, size, stride, offsets) ==
    IF format = NoFormat
    THEN BoResult(Stop(w, "abort"), 0, 0, 0, offsets, FALSE)
    ELSE IF WantsGemBo(format, tiling, size, stride)
    THEN LET bo == NewHandle(w)
             map == NewMap(w)
             \* the clear of the mapped object, from w3 on
             cleared(w3, size1, stride1, offsets1) ==
                 IF format.drm_id # DRM_FORMAT_NV12 THEN w3
                 ELSE IF SecondPlaneAt(offsets1)
                         + ((height + 1) \div 2) * stride1
                         > ALIGN(size1, 4096)
                 THEN Stop(w3, "crash")
                 ELSE write_map(Deref(w3, offsets1), map, Nv12Fill(offsets1))
             \* the i915 branch, with the size, stride and offsets in use
             i915(w0, size1, stride1, offsets1) ==
                 BoResult(
                     gem_munmap(
                         cleared(
                             gem_mmap(
                                 gem_set_tiling(gem_create(w0, size1), bo,
                                     igt_fb_mod_to_tiling(tiling), stride1),
                                 "gem_mmap__gtt", bo, size1),
                             size1, stride1, offsets1),
                         map),
                     bo, size1, stride1, offsets1, FALSE)
             sized(w0, calc, offsets1) ==
                 IF ~Running(w0)
                 THEN BoResult(w0, 0, 0, 0, offsets1, FALSE)
                 ELSE IF calc.st # "ok"
                 THEN BoResult(Stop(w0, calc.st), 0, 0, 0, offsets1, FALSE)
                 ELSE IF is_i915_device(d)
                 THEN i915(w0, IF size = 0 \/ stride = 0 THEN calc.size ELSE size,
                           IF stride = 0 THEN calc.stride ELSE stride,
                           offsets1)
                 ELSE BoResult(Stop(w0, "skip"), 0, 0, 0, offsets1, FALSE)
             \* calc_fb_size_planar stores the offsets if (offsets)
             planar(calc) ==
                 sized(w, calc,
                       IF IsNullOffsets(offsets) THEN offsets
                       ELSE calc.offsets)
         IN IF format.planes > 1
            THEN planar(calc_fb_size_planar(d, width, height, format, tiling))
            ELSE sized(Deref(w, offsets),
                       calc_fb_size_packed(d, width, height, format, tiling),
                       PackedOffsets(offsets))
    ELSE BoResult(kmstest_dumb_create(w, width, height, format.bpp),
                  NewHandle(w), DumbSize(width, height, format.bpp),
                  DumbStride(width, format.bpp), offsets, TRUE)

create_bo_for_fb(w, d, width, height, format, tiling, size, stride, offsets) ==
    IF format = NoFormat
    THEN BoResult(Stop(w, "abort"), 0, 0, 0, offsets, FALSE)
    ELSE IF WantsGemBo(format, tiling, size, stride)
    THEN LET bo == NewHandle(w)
             map == NewMap(w)
             \* the clear of the mapped object, from w3 on
             cleared(w3, size1, stride1, offsets1) ==
                 IF format.drm_id # DRM_FORMAT_NV12 THEN w3
                 ELSE IF SecondPlaneAt(offsets1)
                         + ((height + 1) \div 2) * stride1
                         > ALIGN(size1, 4096)
                 THEN Stop(w3, "crash")
                 ELSE write_map(Deref(w3, offsets1), map, Nv12Fill(offsets1))
             \* the i915 branch, with the size, stride and offsets in use
             i915(w0, size1, stride1, offsets1) ==
                 BoResult(
                     gem_munmap(
                         cleared(
                             gem_mmap(
                                 gem_set_tiling(gem_create(w0, size1), bo,
                                     igt_fb_mod_to_tiling(tiling), stride1),
                                 "gem_mmap__gtt", bo, size1),
                             size1, stride1, offsets1),
                         map),
                     bo, size1, stride1, offsets1, FALSE)
             sized(w0, calc, offsets1) ==
                 IF ~Running(w0)
                 THEN BoResult(w0, 0, 0, 0, offsets1, FALSE)
                 ELSE IF calc.st # "ok"
                 THEN BoResult(Stop(w0, calc.st), 0, 0, 0, offsets1, FALSE)
                 ELSE IF is_i915_device(d)
                 THEN i915(w0, IF size = 0 THEN calc.size ELSE size,
                           IF stride = 0 THEN calc.stride ELSE stride,
                           offsets1)
                 ELSE BoResult(Stop(w0, "skip"), 0, 0, 0, offsets1, FALSE)
             \* calc_fb_size_planar stores the offsets if (offsets)
             planar(calc) ==
                 sized(w, calc,
                       IF IsNullOffsets(offsets) THEN offsets
                       ELSE calc.offsets)
         IN IF format.planes > 1
            THEN planar(calc_fb_size_planar(d, width, height, format, tiling))
            ELSE sized(Deref(w, offsets),
                       calc_fb_size_packed(d, width, height, format, tiling),
                       PackedOffsets(offsets))
    ELSE BoResult(kmstest_dumb_create(w, width, height, format.bpp),
                  NewHandle(w), DumbSize(width, height, format.bpp),
                  DumbStride(width, format.bpp), offsets, TRUE)

(***************************************************************************)
(* The copy engine, igt_blitter_fast_copy__raw, for one plane.  src_at and *)
(* dst_at are the offsets at which the plane's image lies in each object;  *)
(* a copy to or from another offset inside the object moves stray data, a  *)
(* copy outside the object is rejected.                                    *)
(***************************************************************************)
MergePlane(dst, src, num_planes, plane) ==
    IF num_planes <= 1 THEN src
    ELSE IF plane = 0 THEN <<src[1], dst[2], dst[3]>>
    ELSE <<dst[1], src[2], src[3]>>

igt_blitter_fast_copy__raw(w, src, src_off, src_at, dst, dst_off, dst_at, num_planes, plane) ==
    IF ~Running(w) THEN w
    ELSE IF src \notin DOMAIN w.bos \/ dst \notin DOMAIN w.bos
    THEN Stop(Emit(w, "blit", plane), "abort")
    ELSE IF src_off >= w.bos[src].size \/ dst_off >= w.bos[dst].size
    THEN Stop(Emit(w, "blit", plane), "abort")
    ELSE LET data == IF src_off = src_at THEN w.bos[src].px
                     ELSE w.bos[src].stray
         IN IF dst_off = dst_at
            THEN Emit([w EXCEPT !.bos[dst].px =
                          MergePlane(@, data, num_planes, plane)],
                      "blit", plane)
            ELSE Emit([w EXCEPT !.bos[dst].stray =
                          MergePlane(@, data, num_planes, plane)],
                      "blit", plane)

\* struct fb_blit_linear
NoLinear == [handle |-> 0, size |-> 0, stride |-> 0, map |-> 0,
             is_dumb |-> FALSE, offsets |-> ZeroOffsets]
\* the rgb24 member of struct fb_convert_blit_upload
NoRgb24 == [map |-> 0, stride |-> 0, size |-> 0]

\* where cairo or the conversion looks for plane `plane` in the linear
\* buffer: at the start of the mapping for a single plane, at
\* linear->offsets[plane] for NV12
LinearPlaneAt(w, linear, plane) ==
    IF w.fb.num_planes > 1 THEN linear.offsets[plane + 1] ELSE 0

(***************************************************************************)
(* setup_linear_mapping and free_linear_mapping.                           *)
(***************************************************************************)
\* a copy that stops after the first plane
CopyFbToLinear_first(w, linear, plane) ==
    IF plane >= w.fb.num_planes THEN w
    ELSE igt_blitter_fast_copy__raw(w,
            w.fb.gem_handle, w.fb.offsets[plane + 1],
            w.fb.offsets[plane + 1],
            linear.handle, linear.offsets[plane + 1],
            LinearPlaneAt(w, linear, plane),
            w.fb.num_planes, plane)

RECURSIVE CopyFbToLinear(_, _, _)
CopyFbToLinear(w, linear, plane) ==
    IF plane >= w.fb.num_planes THEN w
    ELSE CopyFbToLinear(
            igt_blitter_fast_copy__raw(w,
                w.fb.gem_handle, w.fb.offsets[plane + 1],
                w.fb.offsets[plane + 1],
                linear.handle, linear.offsets[plane + 1],
                LinearPlaneAt(w, linear, plane),
                w.fb.num_planes, plane),
            linear, plane + 1)

RECURSIVE CopyLinearToFb(_, _, _)
CopyLinearToFb(w, linear, plane) ==
    IF plane >= w.fb.num_planes THEN w
    ELSE CopyLinearToFb(
            igt_blitter_fast_copy__raw(w,
                linear.handle, linear.offsets[plane + 1],
                LinearPlaneAt(w, linear, plane),
                w.fb.gem_handle, w.fb.offsets[plane + 1],
                w.fb.offsets[plane + 1],
                w.fb.num_planes, plane),
            linear, plane + 1)

\* the result is the world and the filled-in struct fb_blit_linear; linear
\* is the struct as malloc left it
setup_linear_mapping(w, d, linear) ==
    LET \* linear->map = gem_mmap__cpu(...)
        mapped(w5, lin) ==
            [w |-> gem_mmap(w5, "gem_mmap__cpu", lin.handle, lin.size),
             linear |-> [lin EXCEPT !.map = NewMap(w5)]]
        \* the copy of every plane into the linear object
        copied(w1, lin) ==
            mapped(gem_set_domain(
                       gem_sync(
                           CopyFbToLinear(gem_set_domain(w1, lin.handle),
                                          lin, 0),
                           lin.handle),
                       lin.handle),
                   lin)
        \* igt_assert(linear->handle > 0)
        created(r) ==
            copied(IF r.bo > 0 THEN r.w ELSE Stop(r.w, "abort"),
                   [handle |-> r.bo, size |-> r.size, stride |-> r.stride,
                    map |-> 0, is_dumb |-> r.is_dumb, offsets |-> r.offsets])
    IN created(create_bo_for_fb(w, d, w.fb.width, w.fb.height,
                                lookup_drm_format(w.fb.drm_format),
                                LOCAL_DRM_FORMAT_MOD_NONE, 0, 0,
                                linear.offsets))

free_linear_mapping(w, linear) ==
    LET w1 == gem_munmap(w, linear.map)
        w2 == gem_set_domain(w1, linear.handle)
        w3 == CopyLinearToFb(w2, linear, 0)
        w4 == gem_sync(w3, linear.handle)
    IN gem_close(w4, linear.handle)

(***************************************************************************)
(* The pixel conversions, for one pixel of a uniform image.  The float     *)
(* coefficients have three decimals; values are kept in thousandths.       *)
(***************************************************************************)
\* clamprgb of val / 1000
clamprgb(val) ==
    IF val < 0 THEN 0
    ELSE IF val > 255000 THEN 255
    ELSE val \div 1000

\* <<Y, Cb, Cr>> to <<R, G, B>>
nv12_to_rgb24(px) ==
    LET y0 == 1164 * (px[1] - 16)
        cb == px[2] - 128
        cr == px[3] - 128
    IN << clamprgb(y0 + 1793 * cr),
          clamprgb(y0 - 213 * cb - 533 * cr),
          clamprgb(y0 + 2112 * cb) >>

\* an encoder that leaves out the + 16 of limited range
rgb24_to_nv12_full(px) ==
    << (183 * px[1] + 614 * px[2] + 62 * px[3]) \div 1000,
       (128000 - 101 * px[1] - 339 * px[2] + 439 * px[3]) \div 1000,
       (128000 + 439 * px[1] - 339 * px[2] - 40 * px[3]) \div 1000 >>

\* <<R, G, B>> to <<Y, Cb, Cr>>, limited range BT.709
rgb24_to_nv12(px) ==
    << (183 * px[1] + 614 * px[2] + 62 * px[3] + 16000) \div 1000,
       (128000 - 101 * px[1] - 339 * px[2] + 439 * px[3]) \div 1000,
       (128000 + 439 * px[1] - 339 * px[2] - 40 * px[3]) \div 1000 >>

\* convert_nv12_to_rgb24: copies the planar mapping and decodes it into the
\* packed mapping
convert_nv12_to_rgb24(w, blit) ==
    IF ~Running(w) THEN w
    ELSE IF blit.linear.map \notin DOMAIN w.maps
    THEN Stop(Emit(w, "convert_nv12_to_rgb24", 0), "crash")
    ELSE write_map(Emit(w, "convert_nv12_to_rgb24", 0), blit.rgb24.map,
                   nv12_to_rgb24(read_map(w, blit.linear.map)))

\* convert_rgb24_to_nv12: encodes the packed mapping into the planar mapping
convert_rgb24_to_nv12(w, blit) ==
    IF ~Running(w) THEN w
    ELSE IF w.fb.drm_format # DRM_FORMAT_NV12
    THEN Stop(w, "abort")
    ELSE IF blit.rgb24.map \notin DOMAIN w.maps
    THEN Stop(Emit(w, "convert_rgb24_to_nv12", 0), "crash")
    ELSE write_map(Emit(w, "convert_rgb24_to_nv12", 0), blit.linear.map,
                   rgb24_to_nv12(read_map(w, blit.rgb24.map)))

(***************************************************************************)
(* Cairo surfaces.  A surface is created with one reference; its user data *)
(* (kind and blit) name the release callback and its argument, which       *)
(* cairo_surface_destroy runs when the last reference goes.                *)
(***************************************************************************)
NoBlit == [linear |-> NoLinear, rgb24 |-> NoRgb24]

\* cairo_image_surface_create_for_data, the store to fb->cairo_surface and
\* cairo_surface_set_user_data
surface_create(w, data, stride, kind, blit) ==
    IF ~Running(w) THEN w
    ELSE Emit([w EXCEPT !.surfs = @ @@ ((w.nviews + 1) :>
                  [refs |-> 1, data |-> data, stride |-> stride,
                   kind |-> kind, blit |-> blit]),
                        !.nviews = w.nviews + 1,
                        !.fb.cairo_surface = w.nviews + 1],
              "cairo_image_surface_create_for_data", w.nviews + 1)

free(w) == IF ~Running(w) THEN w ELSE Emit(w, "free", 0)
malloc(w) == IF ~Running(w) THEN w ELSE Emit(w, "malloc", 0)

clear_cairo_surface(w) ==
    IF ~Running(w) THEN w ELSE [w EXCEPT !.fb.cairo_surface = NULL]

create_cairo_surface__gtt(w) ==
    LET w1 == gem_mmap(w, IF w.fb.is_dumb THEN "kmstest_dumb_map_buffer"
                          ELSE "gem_mmap__gtt",
                       w.fb.gem_handle, w.fb.size)
    IN surface_create(w1, NewMap(w), w.fb.stride, "gtt", NoBlit)

\* a release that leaves the stale pointer in fb->cairo_surface
destroy_cairo_surface__gtt_stale(w) ==
    IF w.fb.cairo_surface \notin DOMAIN w.surfs THEN Stop(w, "crash")
    ELSE LET dirty(w1) ==
                 IF w.fb.is_dumb /\ Running(w1)
                 THEN Emit(w1, "drmModeDirtyFB", w.fb.fb_id)
                 ELSE w1
         IN dirty(gem_munmap(w, w.surfs[w.fb.cairo_surface].data))

destroy_cairo_surface__gtt(w) ==
    IF w.fb.cairo_surface \notin DOMAIN w.surfs THEN Stop(w, "crash")
    ELSE LET dirty(w2) ==
                 IF w.fb.is_dumb /\ Running(w2)
                 THEN Emit(w2, "drmModeDirtyFB", w.fb.fb_id)
                 ELSE w2
         IN dirty(clear_cairo_surface(
                      gem_munmap(w, w.surfs[w.fb.cairo_surface].data)))

\* stale is what malloc left in blit->linear.offsets
create_cairo_surface__blit(w, d, stale) ==
    LET wrapped(r) ==
            surface_create(r.w, r.linear.map, r.linear.stride, "blit",
                           [linear |-> r.linear, rgb24 |-> NoRgb24])
    IN wrapped(setup_linear_mapping(malloc(w), d,
                                    [NoLinear EXCEPT !.offsets = stale]))

destroy_cairo_surface__blit(w, blit) ==
    free(free_linear_mapping(clear_cairo_surface(w), blit.linear))

\* an acquisition that decodes without looking at the format
create_cairo_surface__convert_unchecked(w, d, stale) ==
    LET stride == ALIGN(w.fb.width * 4, 16)
        size == ALIGN(stride * w.fb.height, 4096)
        rgb24 == [map |-> NewMap(w), stride |-> stride, size |-> size]
        wrapped(w2, blit) ==
            surface_create(convert_nv12_to_rgb24(w2, blit),
                           rgb24.map, rgb24.stride, "convert", blit)
        \* the tilings the CPU cannot read go through a linear shadow
        shadowed(r) == wrapped(r.w, [linear |-> r.linear, rgb24 |-> rgb24])
        \* the others are mapped through the GTT
        direct(w1) ==
            wrapped(gem_mmap(w1, "gem_mmap__gtt", w.fb.gem_handle, w.fb.size),
                    [linear |-> [handle |-> 0, size |-> w.fb.size,
                                 stride |-> w.fb.stride, map |-> NewMap(w1),
                                 is_dumb |-> FALSE, offsets |-> w.fb.offsets],
                     rgb24 |-> rgb24])
        allocated(w1) ==
            IF w.fb.tiling \in { LOCAL_I915_FORMAT_MOD_Y_TILED,
                                 LOCAL_I915_FORMAT_MOD_Yf_TILED }
            THEN shadowed(setup_linear_mapping(w1, d,
                              [NoLinear EXCEPT !.offsets = stale]))
            ELSE direct(w1)
    IN allocated(mmap_anonymous(malloc(w), size))

create_cairo_surface__convert(w, d, stale) ==
    LET stride == ALIGN(w.fb.width * 4, 16)
        size == ALIGN(stride * w.fb.height, 4096)
        rgb24 == [map |-> NewMap(w), stride |-> stride, size |-> size]
        \* igt_assert(fb->drm_format == DRM_FORMAT_NV12), the decode and
        \* the surface
        wrapped(w2, blit) ==
            surface_create(
                convert_nv12_to_rgb24(
                    IF w.fb.drm_format # DRM_FORMAT_NV12
                    THEN Stop(w2, "abort") ELSE w2,
                    blit),
                rgb24.map, rgb24.stride, "convert", blit)
        \* the tilings the CPU cannot read go through a linear shadow
        shadowed(r) == wrapped(r.w, [linear |-> r.linear, rgb24 |-> rgb24])
        \* the others are mapped through the GTT
        direct(w1) ==
            wrapped(gem_mmap(w1, "gem_mmap__gtt", w.fb.gem_handle, w.fb.size),
                    [linear |-> [handle |-> 0, size |-> w.fb.size,
                                 stride |-> w.fb.stride, map |-> NewMap(w1),
                                 is_dumb |-> FALSE, offsets |-> w.fb.offsets],
                     rgb24 |-> rgb24])
        allocated(w1) ==
            IF w.fb.tiling \in { LOCAL_I915_FORMAT_MOD_Y_TILED,
                                 LOCAL_I915_FORMAT_MOD_Yf_TILED }
            THEN shadowed(setup_linear_mapping(w1, d,
                              [NoLinear EXCEPT !.offsets = stale]))
            ELSE direct(w1)
    IN allocated(mmap_anonymous(malloc(w), size))

\* a release that writes the shadow back before the packed RGB is encoded
destroy_cairo_surface__convert_late(w, blit) ==
    LET w0 == IF w.fb.drm_format # DRM_FORMAT_NV12 THEN Stop(w, "abort")
              ELSE w
        unmapped(w1) ==
            IF blit.linear.handle # 0
            THEN free_linear_mapping(w1, blit.linear)
            ELSE gem_munmap(w1, blit.linear.map)
    IN clear_cairo_surface(free(
           munmap(convert_rgb24_to_nv12(unmapped(w0), blit),
                  blit.rgb24.map)))

destroy_cairo_surface__convert(w, blit) ==
    LET w0 == IF w.fb.drm_format # DRM_FORMAT_NV12 THEN Stop(w, "abort")
              ELSE w
        unmapped(w2) ==
            IF blit.linear.handle # 0
            THEN free_linear_mapping(w2, blit.linear)
            ELSE gem_munmap(w2, blit.linear.map)
    IN clear_cairo_surface(free(
           unmapped(munmap(convert_rgb24_to_nv12(w0, blit),
                           blit.rgb24.map))))

\* the release callback registered with the surface
release_view(w, surf) ==
    CASE surf.kind = "gtt" -> destroy_cairo_surface__gtt(w)
      [] surf.kind = "blit" -> destroy_cairo_surface__blit(w, surf.blit)
      [] surf.kind = "convert" -> destroy_cairo_surface__convert(w, surf.blit)

\* cairo_surface_destroy of NULL or of a surface; a pointer to a destroyed
\* surface faults
cairo_surface_destroy(w, surface) ==
    IF ~Running(w) \/ surface = NULL THEN w
    ELSE IF surface \notin DOMAIN w.surfs THEN Stop(w, "crash")
    ELSE IF w.surfs[surface].refs > 1
    THEN [w EXCEPT !.surfs[surface].refs = @ - 1]
    ELSE LET w1 == release_view(Emit(w, "release", surface), w.surfs[surface])
         IN [w1 EXCEPT !.surfs = Without(@, surface)]

NewCtx(w) == LowestFree(DOMAIN w.ctxs)

\* cairo_create takes a reference on the target surface
cairo_create(w, surface) ==
    IF ~Running(w) THEN w
    ELSE IF surface \notin DOMAIN w.surfs THEN Stop(w, "crash")
    ELSE [w EXCEPT !.ctxs = @ @@ (NewCtx(w) :> surface),
                   !.surfs[surface].refs = @ + 1]

\* cairo_destroy of the last reference to a context drops the context's
\* reference on its target
cairo_destroy(w, cr) ==
    IF ~Running(w) THEN w
    ELSE cairo_surface_destroy([w EXCEPT !.ctxs = Without(@, cr)], w.ctxs[cr])

(***************************************************************************)
(* The library calls.                                                      *)
(***************************************************************************)
\* drmModeAddFB2 / __kms_addfb: the kernel hands out a new framebuffer id
kms_addfb(w, how) ==
    IF ~Running(w) THEN w
    ELSE Emit([w EXCEPT !.kms = @ \cup {LowestFree(w.kms)},
                        !.fb.fb_id = LowestFree(w.kms)],
              how, LowestFree(w.kms))

drmModeRmFB(w, fb_id) ==
    IF ~Running(w) THEN w
    ELSE IF fb_id \notin w.kms THEN Stop(Emit(w, "drmModeRmFB", fb_id), "abort")
    ELSE Emit([w EXCEPT !.kms = @ \ {fb_id}], "drmModeRmFB", fb_id)

\* the plane fields igt_create_fb_with_bo_size stores: plane 0 from the
\* arguments, then every declared plane from the format
\* (perPlane is the array of the per-plane values)
PlaneField(f, first, perPlane) ==
    [p \in 1..4 |-> IF p <= f.planes THEN perPlane[p]
                    ELSE IF p = 1 THEN first ELSE 0]

igt_create_fb_with_bo_size(w, d, width, height, format, tiling, bo_size, bo_stride) ==
    LET f == lookup_drm_format(format)
        \* the fields stored after the framebuffer object exists
        filled(w3) ==
            IF ~Running(w3) THEN w3
            ELSE [w3 EXCEPT
                    !.fb.width = width, !.fb.height = height,
                    !.fb.tiling = tiling, !.fb.drm_format = format,
                    !.fb.num_planes = IF f.planes # 0 THEN f.planes ELSE 1,
                    !.fb.plane_bpp = PlaneField(f, f.bpp, f.plane_bpp),
                    !.fb.plane_height =
                        PlaneField(f, height,
                            [p \in 1..4 |-> planar_height(f, height, p - 1)]),
                    !.fb.plane_width =
                        PlaneField(f, width,
                            [p \in 1..4 |-> planar_width(f, width, p - 1)])]
        \* what create_bo_for_fb returned through its pointers
        stored(w1, r) ==
            IF ~Running(w1) THEN w1
            ELSE [w1 EXCEPT !.fb.gem_handle = r.bo, !.fb.size = r.size,
                            !.fb.stride = r.stride,
                            !.fb.offsets = r.offsets,
                            !.fb.is_dumb = r.is_dumb]
        \* igt_assert(fb->gem_handle > 0) and the addfb call
        created(r) ==
            filled(kms_addfb(
                       stored(IF r.bo > 0 THEN r.w ELSE Stop(r.w, "abort"), r),
                       IF tiling # LOCAL_DRM_FORMAT_MOD_NONE
                          /\ tiling # LOCAL_I915_FORMAT_MOD_X_TILED
                       THEN "__kms_addfb" ELSE "drmModeAddFB2"))
    IN IF f = NoFormat THEN Stop(w, "abort")
       ELSE created(create_bo_for_fb([w EXCEPT !.fb = NoFb], d, width,
                                     height, f, tiling, bo_size, bo_stride,
                                     NoFb.offsets))

\* a lookup that builds a new view on every call
igt_get_cairo_surface_always(w, d, stale) ==
    LET viewed(w1) ==
            IF ~w.fb.is_dumb THEN gem_set_domain(w1, w.fb.gem_handle) ELSE w1
    IN viewed(IF w.fb.num_planes > 1
              THEN create_cairo_surface__convert(w, d, stale)
              ELSE IF w.fb.tiling \in { LOCAL_I915_FORMAT_MOD_Y_TILED,
                                        LOCAL_I915_FORMAT_MOD_Yf_TILED }
              THEN create_cairo_surface__blit(w, d, stale)
              ELSE create_cairo_surface__gtt(w))

igt_get_cairo_surface(w, d, stale) ==
    LET viewed(w1) ==
            IF ~w.fb.is_dumb THEN gem_set_domain(w1, w.fb.gem_handle) ELSE w1
    IN viewed(IF w.fb.cairo_surface # NULL THEN w
              ELSE IF w.fb.num_planes > 1
              THEN create_cairo_surface__convert(w, d, stale)
              ELSE IF w.fb.tiling \in { LOCAL_I915_FORMAT_MOD_Y_TILED,
                                        LOCAL_I915_FORMAT_MOD_Yf_TILED }
              THEN create_cairo_surface__blit(w, d, stale)
              ELSE create_cairo_surface__gtt(w))

igt_get_cairo_ctx(w, d, stale) ==
    LET \* cr = cairo_create(surface); cairo_surface_destroy(surface)
        made(w1) ==
            cairo_surface_destroy(cairo_create(w1, w1.fb.cairo_surface),
                                  w1.fb.cairo_surface)
    IN made(igt_get_cairo_surface(w, d, stale))

igt_put_cairo_ctx(w, cr) == cairo_destroy(w, cr)

\* a removal that closes the buffer object before the view is destroyed
igt_remove_fb_close_first(w) ==
    LET w1 == gem_close(w, w.fb.gem_handle)
        w2 == cairo_surface_destroy(w1, w.fb.cairo_surface)
    IN drmModeRmFB(w2, w.fb.fb_id)

igt_remove_fb(w) ==
    LET w1 == cairo_surface_destroy(w, w.fb.cairo_surface)
        w2 == drmModeRmFB(w1, w.fb.fb_id)
    IN gem_close(w2, w.fb.gem_handle)

(***************************************************************************)
(* Actions of the lifecycle.                                               *)
(***************************************************************************)
Fresh == [World EXCEPT !.log = <<>>]

FbLive == fb.fb_id \in kms

\* the caller creates its framebuffer
IgtCreateFbWithBoSize ==
    /\ halt = "run"
    /\ fb = NoFb
    /\ \E width \in FbDims, height \in FbDims,
          format \in Formats \cup {UnknownFormat},
          tiling \in Modifiers \cup {UnknownModifier},
          bo_size \in {0, BoSizeArg},
          bo_stride \in {0, BoStrideArg} :
           /\ call' = [NoCall EXCEPT !.op = "igt_create_fb_with_bo_size",
                                     !.width = width, !.height = height,
                                     !.format = format, !.tiling = tiling,
                                     !.size = bo_size, !.stride = bo_stride]
           /\ Becomes(igt_create_fb_with_bo_size(Fresh, dev, width, height,
                          format, tiling, bo_size, bo_stride))
    /\ UNCHANGED <<dev, ret>>

IgtGetCairoSurface ==
    /\ halt = "run"
    /\ FbLive
    /\ fb.cairo_surface = NULL => nviews < MaxViews
    /\ \E stale \in StaleOffsets :
           Becomes(igt_get_cairo_surface(Fresh, dev, stale))
    /\ call' = [NoCall EXCEPT !.op = "igt_get_cairo_surface"]
    /\ UNCHANGED <<dev, ret>>

IgtGetCairoCtx ==
    /\ halt = "run"
    /\ FbLive
    /\ fb.cairo_surface = NULL => nviews < MaxViews
    /\ Cardinality(DOMAIN ctxs) < MaxCtx
    /\ \E stale \in StaleOffsets :
           Becomes(igt_get_cairo_ctx(Fresh, dev, stale))
    /\ call' = [NoCall EXCEPT !.op = "igt_get_cairo_ctx",
                              !.cr = NewCtx(World)]
    /\ UNCHANGED <<dev, ret>>

\* the test draws with a context: cairo writes the pixels of the target
\* surface.  A context whose target was destroyed holds a dangling pointer;
\* drawing with it either faults or goes unnoticed.
Draw ==
    /\ halt = "run"
    /\ \E cr \in DOMAIN ctxs, colour \in DrawColours :
           /\ call' = [NoCall EXCEPT !.op = "draw", !.cr = cr]
           /\ IF ctxs[cr] \in DOMAIN surfs
              THEN Becomes(write_map(Fresh, surfs[ctxs[cr]].data, colour))
              ELSE \E outcome \in {"crash", "run"} :
                      Becomes([Fresh EXCEPT !.halt = outcome])
    /\ UNCHANGED <<dev, ret>>

\* igt_put_cairo_ctx.  With a dangling target cairo_destroy uses freed
\* memory: the process faults, or the call goes unnoticed.
IgtPutCairoCtx ==
    /\ halt = "run"
    /\ \E cr \in DOMAIN ctxs :
           /\ call' = [NoCall EXCEPT !.op = "igt_put_cairo_ctx", !.cr = cr]
           /\ IF ctxs[cr] \in DOMAIN surfs
              THEN Becomes(igt_put_cairo_ctx(Fresh, cr))
              ELSE \E outcome \in {"crash", "run"} :
                      Becomes([Fresh EXCEPT !.halt = outcome,
                                            !.ctxs = Without(@, cr)])
    /\ UNCHANGED <<dev, ret>>

IgtRemoveFb ==
    /\ halt = "run"
    /\ FbLive
    /\ call' = [NoCall EXCEPT !.op = "igt_remove_fb"]
    /\ Becomes(igt_remove_fb(Fresh))
    /\ UNCHANGED <<dev, ret>>

Next ==
    \/ IgtCreateFbWithBoSize
    \/ IgtGetCairoSurface
    \/ IgtGetCairoCtx
    \/ Draw
    \/ IgtPutCairoCtx
    \/ IgtRemoveFb

Spec == Init /\ [][Next]_vars

(***************************************************************************)
(* Properties of the lifecycle.                                            *)
(***************************************************************************)
FbCreated == fb.fb_id # 0

\* C5: an NV12 framebuffer stores plane 0 as width x height and the chroma
\* plane as ceil(width/2) x ceil(height/2), for odd and even sizes.
C5_Nv12PlaneDimensions ==
    (FbCreated /\ fb.drm_format = DRM_FORMAT_NV12) =>
        /\ fb.width >= 1 /\ fb.height >= 1
        /\ call.op = "igt_create_fb_with_bo_size" =>
              fb.width = call.width /\ fb.height = call.height
        /\ fb.plane_width[1] = fb.width
        /\ fb.plane_height[1] = fb.height
        /\ fb.plane_width[2] = CeilHalf(fb.width)
        /\ fb.plane_height[2] = CeilHalf(fb.height)

C5_Witness ==
    /\ FbCreated /\ fb.drm_format = DRM_FORMAT_NV12
    /\ call.op = "igt_create_fb_with_bo_size"
    /\ fb.width = 2 /\ fb.height = 1
    /\ fb.plane_width[2] = 1 /\ fb.plane_height[2] = 1

\* C7: for a single-plane format every layout create_bo_for_fb fills in has
\* four zero offsets: the framebuffer's own and the linear shadow buffer's.
C7_SinglePlaneOffsetsZero ==
    (FbCreated /\ SinglePlane(fb.drm_format)) =>
        /\ fb.offsets = ZeroOffsets
        /\ \A s \in DOMAIN surfs :
              surfs[s].kind = "blit" =>
                  surfs[s].blit.linear.offsets = ZeroOffsets

\* the part of C7 that the code keeps: the framebuffer's own offsets
C7_FbOffsetsZero ==
    (FbCreated /\ SinglePlane(fb.drm_format)) => fb.offsets = ZeroOffsets

GetCallOp == {"igt_get_cairo_surface", "igt_get_cairo_ctx"}

HasEvent(l, e) == \E i \in 1..Len(l) : l[i].e = e
CountEvent(l, e) == Cardinality({ i \in 1..Len(l) : l[i].e = e })
\* every event e1 of l comes before every event e2 of l
AllBefore(l, e1, e2) ==
    \A i, j \in 1..Len(l) : (l[i].e = e1 /\ l[j].e = e2) => i < j

CreationEvents ==
    { "malloc", "mmap", "gem_mmap__gtt", "gem_mmap__cpu",
      "kmstest_dumb_map_buffer", "gem_create", "kmstest_dumb_create",
      "convert_nv12_to_rgb24", "blit",
      "cairo_image_surface_create_for_data" }

\* the live views are exactly the one fb->cairo_surface points to, if any
OneView ==
    /\ Cardinality(DOMAIN surfs) <= 1
    /\ fb.cairo_surface = NULL => DOMAIN surfs = {}
    /\ fb.cairo_surface # NULL => DOMAIN surfs = {fb.cairo_surface}

\* a call of igt_get_cairo_surface or igt_get_cairo_ctx while a view is live
GetWhileLive ==
    /\ halt = "run" /\ fb.cairo_surface # NULL
    /\ call'.op \in GetCallOp

\* C8: at most one view exists per framebuffer, and a get made while a view
\* is live returns that view without decoding, mapping or allocating.
C8_AtMostOneView ==
    [][ /\ OneView /\ OneView'
        /\ GetWhileLive =>
              /\ fb'.cairo_surface = fb.cairo_surface
              /\ surfs' = surfs /\ maps' = maps /\ bos' = bos
              /\ nviews' = nviews
              /\ \A i \in 1..Len(log') : log'[i].e \notin CreationEvents ]_vars

C8_Witness ==
    /\ call.op = "igt_get_cairo_ctx" /\ halt = "run"
    /\ nviews = 1 /\ DOMAIN surfs = {1}
    /\ DOMAIN ctxs = {1, 2} /\ ctxs[1] = 1 /\ ctxs[2] = 1

\* igt_put_cairo_ctx releases the view of an NV12 framebuffer in this step
Nv12Release ==
    /\ halt = "run" /\ fb.num_planes > 1 /\ fb.cairo_surface # NULL
    /\ call'.op = "igt_put_cairo_ctx"
    /\ HasEvent(log', "release")

\* C9: on release of an NV12 view the packed RGB is re-encoded into the
\* planar mapping before that mapping is unmapped and before the shadow is
\* blitted back; the shadow is closed after the blit-back and the sync; the
\* packed RGB and the record are freed exactly once.
C9_Nv12ReleaseOrder ==
    [][ Nv12Release =>
          LET blit == surfs[fb.cairo_surface].blit
              shadow == blit.linear.handle # 0
          IN /\ halt' = "run"
             /\ CountEvent(log', "convert_rgb24_to_nv12") = 1
             /\ AllBefore(log', "convert_rgb24_to_nv12", "gem_munmap")
             /\ AllBefore(log', "convert_rgb24_to_nv12", "blit")
             /\ AllBefore(log', "blit", "gem_sync")
             /\ AllBefore(log', "blit", "gem_close")
             /\ AllBefore(log', "gem_sync", "gem_close")
             /\ CountEvent(log', "munmap") = 1
             /\ CountEvent(log', "free") = 1
             /\ CountEvent(log', "gem_munmap") = 1
             /\ shadow => /\ CountEvent(log', "blit") = fb.num_planes
                          /\ CountEvent(log', "gem_sync") = 1
                          /\ CountEvent(log', "gem_close") = 1
                          /\ blit.linear.handle \notin DOMAIN bos'
             /\ ~shadow => /\ CountEvent(log', "blit") = 0
                           /\ CountEvent(log', "gem_close") = 0
             /\ blit.rgb24.map \notin DOMAIN maps'
             /\ blit.linear.map \notin DOMAIN maps'
             /\ bos'[fb.gem_handle].px =
                    rgb24_to_nv12(maps[blit.rgb24.map].px) ]_vars

C9_Witness ==
    /\ call.op = "igt_put_cairo_ctx" /\ halt = "run"
    /\ fb.drm_format = DRM_FORMAT_NV12
    /\ fb.tiling = LOCAL_I915_FORMAT_MOD_Y_TILED
    /\ HasEvent(log, "release") /\ CountEvent(log, "blit") = 2
    /\ FbLive /\ bos[fb.gem_handle].px = <<117, 95, 179>>

\* the release callback of a view ran to its end in this step
ReleaseRan == HasEvent(log', "release") /\ halt' = "run"

\* a get that finds no view and returns
GetWithoutView ==
    /\ halt = "run" /\ fb.cairo_surface = NULL
    /\ call'.op \in GetCallOp /\ halt' = "run"

MappingEvents ==
    { "gem_mmap__gtt", "gem_mmap__cpu", "kmstest_dumb_map_buffer" }

\* C10: once a release callback has run fb->cairo_surface is NULL; the next
\* get builds a fresh view: a surface never handed out before, on a new
\* mapping, and for NV12 on a new decode of the buffer's current contents.
C10_ReleasedViewNotReused ==
    [][ /\ ReleaseRan => fb'.cairo_surface = NULL
        /\ GetWithoutView =>
              /\ fb'.cairo_surface = nviews + 1
              /\ nviews' = nviews + 1
              /\ DOMAIN surfs' = {nviews + 1}
              /\ surfs'[nviews + 1].data \in DOMAIN maps'
              /\ \E i \in 1..Len(log') : log'[i].e \in MappingEvents
              /\ surfs'[nviews + 1].kind =
                    (IF fb.num_planes > 1 THEN "convert"
                     ELSE IF fb.tiling \in { LOCAL_I915_FORMAT_MOD_Y_TILED,
                                             LOCAL_I915_FORMAT_MOD_Yf_TILED }
                     THEN "blit" ELSE "gtt")
              /\ fb.num_planes > 1 =>
                    /\ CountEvent(log', "convert_nv12_to_rgb24") = 1
                    /\ maps'[surfs'[nviews + 1].data].px =
                          nv12_to_rgb24(bos[fb.gem_handle].px) ]_vars

C10_Witness ==
    /\ call.op \in GetCallOp /\ halt = "run"
    /\ fb.drm_format = DRM_FORMAT_NV12
    /\ nviews = 2 /\ fb.cairo_surface = 2 /\ DOMAIN surfs = {2}
    /\ maps[surfs[2].data].px = <<209, 97, 47>>

\* the arguments of the events e of l, in order
EventArgs(l, e) ==
    LET IsE(x) == x.e = e
    IN [i \in 1..Len(SelectSeq(l, IsE)) |-> SelectSeq(l, IsE)[i].a]

YTiled(tiling) ==
    tiling \in { LOCAL_I915_FORMAT_MOD_Y_TILED, LOCAL_I915_FORMAT_MOD_Yf_TILED }

\* C11: a get that builds a view takes the convert path iff num_planes > 1,
\* else the blit path iff the tiling is Y or Yf, else the direct map.  For Y
\* and Yf one linear buffer object is allocated, every plane is blitted into
\* it in plane order and it is the object that is mapped (for NV12, whose
\* shadow offsets are calculated, it then holds the framebuffer's image);
\* for linear and X no object is allocated, nothing is blitted, and the
\* framebuffer's own object is mapped with its size, stride and offsets.
C11_ViewPath ==
    [][ GetWithoutView =>
          LET s == surfs'[fb'.cairo_surface]
              lin == surfs'[fb'.cairo_surface].blit.linear
              made == (DOMAIN bos') \ (DOMAIN bos)
          IN /\ s.kind = "convert" <=> fb.num_planes > 1
             /\ s.kind = "blit" <=> (fb.num_planes <= 1 /\ YTiled(fb.tiling))
             /\ s.kind = "gtt" <=> (fb.num_planes <= 1 /\ ~YTiled(fb.tiling))
             /\ YTiled(fb.tiling) =>
                   /\ made = {lin.handle}
                   /\ bos'[lin.handle].tiling = I915_TILING_NONE
                   /\ EventArgs(log', "blit") =
                         [p \in 1..fb.num_planes |-> p - 1]
                   /\ AllBefore(log', "blit", "gem_mmap__cpu")
                   /\ maps'[lin.map].bo = lin.handle
                   /\ fb.num_planes > 1 =>
                         bos'[lin.handle].px = bos[fb.gem_handle].px
             /\ ~YTiled(fb.tiling) =>
                   /\ made = {}
                   /\ EventArgs(log', "blit") = <<>>
                   /\ fb.num_planes <= 1 =>
                         /\ maps'[s.data].bo = fb.gem_handle
                         /\ maps'[s.data].size = fb.size
                         /\ s.stride = fb.stride
                   /\ fb.num_planes > 1 =>
                         /\ lin.handle = 0
                         /\ maps'[lin.map].bo = fb.gem_handle
                         /\ maps'[lin.map].size = fb.size
                         /\ lin.stride = fb.stride
                         /\ lin.size = fb.size
                         /\ lin.offsets = fb.offsets ]_vars

C11_Witness ==
    /\ call.op = "igt_get_cairo_surface" /\ halt = "run"
    /\ fb.drm_format = DRM_FORMAT_NV12
    /\ fb.tiling = LOCAL_I915_FORMAT_MOD_Yf_TILED
    /\ fb.cairo_surface \in DOMAIN surfs
    /\ surfs[fb.cairo_surface].kind = "convert"
    /\ surfs[fb.cairo_surface].blit.linear.handle \in DOMAIN bos
    /\ EventArgs(log, "blit") = <<0, 1>>

(***************************************************************************)
(* The entry points, one call per behaviour: the layout functions, the     *)
(* lookups of the format registry and of the tiling constants, and the two *)
(* allocating calls on a fresh process.                                    *)
(***************************************************************************)
\* a tiling constant no case of igt_fb_tiling_to_mod knows
UnknownTiling == 9

Tilings == { I915_TILING_NONE, I915_TILING_X, I915_TILING_Y, I915_TILING_Yf }

\* a conversion that takes Y for Yf and Yf for Y
igt_fb_tiling_to_mod_swapped(tiling) ==
    CASE tiling = I915_TILING_NONE -> LOCAL_DRM_FORMAT_MOD_NONE
      [] tiling = I915_TILING_X -> LOCAL_I915_FORMAT_MOD_X_TILED
      [] tiling = I915_TILING_Y -> LOCAL_I915_FORMAT_MOD_Yf_TILED
      [] tiling = I915_TILING_Yf -> LOCAL_I915_FORMAT_MOD_Y_TILED
      [] OTHER -> -1

\* igt_fb_tiling_to_mod; -1 stands for igt_assert(0)
igt_fb_tiling_to_mod(tiling) ==
    CASE tiling = I915_TILING_NONE -> LOCAL_DRM_FORMAT_MOD_NONE
      [] tiling = I915_TILING_X -> LOCAL_I915_FORMAT_MOD_X_TILED
      [] tiling = I915_TILING_Y -> LOCAL_I915_FORMAT_MOD_Y_TILED
      [] tiling = I915_TILING_Yf -> LOCAL_I915_FORMAT_MOD_Yf_TILED
      [] OTHER -> -1

\* igt_drm_format_to_bpp; -1 stands for the failed igt_assert_f
igt_drm_format_to_bpp(drm_format) ==
    IF lookup_drm_format(drm_format) = NoFormat THEN -1
    ELSE lookup_drm_format(drm_format).bpp

igt_format_str(drm_format) ==
    IF lookup_drm_format(drm_format) = NoFormat THEN "invalid"
    ELSE lookup_drm_format(drm_format).name

\* for_each_format walks the registry in this order
FormatOrder == << "RGB565", "XRGB8888", "XRGB2101010", "ARGB8888", "NV12" >>

\* igt_bpp_depth_to_drm_format: the first entry with this bpp and depth;
\* "none" stands for the failed igt_assert_f
RECURSIVE BppDepthFrom(_, _, _)
BppDepthFrom(i, bpp, depth) ==
    IF i > Len(FormatOrder) THEN "none"
    ELSE IF format_desc[FormatOrder[i]].bpp = bpp
            /\ format_desc[FormatOrder[i]].depth = depth
    THEN format_desc[FormatOrder[i]].drm_id
    ELSE BppDepthFrom(i + 1, bpp, depth)

igt_bpp_depth_to_drm_format(bpp, depth) == BppDepthFrom(1, bpp, depth)

\* igt_create_bo_with_dimensions passes size 0 and a NULL offsets pointer
igt_create_bo_with_dimensions(w, d, width, height, format, modifier, stride, fault) ==
    create_bo_for_fb(w, d, width, height, lookup_drm_format(format),
                     modifier, 0, stride, NullOffsets(fault))

\* the bpp and depth arguments of igt_bpp_depth_to_drm_format
BppArgs == {8, 16, 24, 32}
DepthArgs == {-1, 15, 16, 24, 30, 32}

IgtFbModToTiling ==
    /\ call.op = "none"
    /\ \E modifier \in Modifiers \cup {UnknownModifier} :
           /\ call' = [NoCall EXCEPT !.op = "igt_fb_mod_to_tiling",
                                     !.tiling = modifier]
           /\ ret' = ValueRet(IF igt_fb_mod_to_tiling(modifier) = -1
                              THEN "abort" ELSE "ok",
                              igt_fb_mod_to_tiling(modifier))
           /\ UNCHANGED <<dev, lifeVars>>

IgtFbTilingToMod ==
    /\ call.op = "none"
    /\ \E tiling \in Tilings \cup {UnknownTiling} :
           /\ call' = [NoCall EXCEPT !.op = "igt_fb_tiling_to_mod",
                                     !.tiling = tiling]
           /\ ret' = ValueRet(IF igt_fb_tiling_to_mod(tiling) = -1
                              THEN "abort" ELSE "ok",
                              igt_fb_tiling_to_mod(tiling))
           /\ UNCHANGED <<dev, lifeVars>>

IgtDrmFormatToBpp ==
    /\ call.op = "none"
    /\ \E drm_format \in Formats \cup {UnknownFormat} :
           /\ call' = [NoCall EXCEPT !.op = "igt_drm_format_to_bpp",
                                     !.format = drm_format]
           /\ ret' = ValueRet(IF igt_drm_format_to_bpp(drm_format) = -1
                              THEN "abort" ELSE "ok",
                              igt_drm_format_to_bpp(drm_format))
           /\ UNCHANGED <<dev, lifeVars>>

IgtFormatStr ==
    /\ call.op = "none"
    /\ \E drm_format \in Formats \cup {UnknownFormat} :
           /\ call' = [NoCall EXCEPT !.op = "igt_format_str",
                                     !.format = drm_format]
           /\ ret' = ValueRet("ok", igt_format_str(drm_format))
           /\ UNCHANGED <<dev, lifeVars>>

IgtBppDepthToDrmFormat ==
    /\ call.op = "none"
    /\ \E bpp \in BppArgs, depth \in DepthArgs :
           /\ call' = [NoCall EXCEPT !.op = "igt_bpp_depth_to_drm_format",
                                     !.bpp = bpp, !.depth = depth]
           /\ ret' = ValueRet(IF igt_bpp_depth_to_drm_format(bpp, depth)
                                 = "none"
                              THEN "abort" ELSE "ok",
                              igt_bpp_depth_to_drm_format(bpp, depth))
           /\ UNCHANGED <<dev, lifeVars>>

\* igt_create_fb_with_bo_size as the first call of the process
FirstCreateFb ==
    /\ call.op = "none"
    /\ IgtCreateFbWithBoSize

\* igt_create_bo_with_dimensions as the first call of the process; fault is
\* what this build does on an access through the NULL offsets pointer
IgtCreateBoWithDimensions ==
    /\ call.op = "none"
    /\ \E width \in FbDims, height \in FbDims,
          format \in Formats \cup {UnknownFormat},
          modifier \in Modifiers \cup {UnknownModifier},
          stride \in {0, BoStrideArg}, fault \in {"crash", "run"} :
           LET r == igt_create_bo_with_dimensions(Fresh, dev, width, height,
                        format, modifier, stride, fault)
           IN /\ call' = [NoCall EXCEPT
                             !.op = "igt_create_bo_with_dimensions",
                             !.width = width, !.height = height,
                             !.format = format, !.tiling = modifier,
                             !.stride = stride]
              /\ Becomes(r.w)
              /\ ret' = [NoRet EXCEPT !.st = r.w.halt, !.val = r.bo,
                                      !.size = r.size, !.stride = r.stride]
    /\ UNCHANGED dev

NextEntry ==
    \/ GetFbTileSize
    \/ CalcFbSize
    \/ CalcFbSizePlanar
    \/ IgtFbModToTiling
    \/ IgtFbTilingToMod
    \/ IgtDrmFormatToBpp
    \/ IgtFormatStr
    \/ IgtBppDepthToDrmFormat
    \/ FirstCreateFb
    \/ IgtCreateBoWithDimensions

SpecEntry == Init /\ [][NextEntry]_vars

(***************************************************************************)
(* Properties of the entry points.                                         *)
(***************************************************************************)
\* the call was given a format code the registry does not hold
BadFormat == call.format \notin Formats
\* the call was given a modifier other than NONE, X, Y and Yf
BadModifier == call.tiling \notin Modifiers
\* igt_get_fb_tile_size was given Yf and a bpp of no class
BadYfBpp ==
    /\ call.tiling = LOCAL_I915_FORMAT_MOD_Yf_TILED
    /\ call.bpp \notin {8, 16, 32, 64, 128}

\* C12: every entry point given a format code absent from the registry, a
\* modifier other than NONE/X/Y/Yf or, for Yf, a bpp of no class ends in a
\* failed assertion; igt_format_str alone returns, with "invalid".
C12_UnknownInputAborts ==
    /\ (call.op = "igt_calc_fb_size" /\ (BadFormat \/ BadModifier)) =>
          ret.st = "abort"
    /\ (call.op = "igt_create_fb_with_bo_size"
        /\ (BadFormat \/ BadModifier)) => halt = "abort"
    /\ (call.op = "igt_create_bo_with_dimensions"
        /\ (BadFormat \/ BadModifier)) => halt = "abort"
    /\ (call.op = "igt_drm_format_to_bpp" /\ BadFormat) => ret.st = "abort"
    /\ (call.op = "igt_get_fb_tile_size" /\ (BadModifier \/ BadYfBpp)) =>
          ret.st = "abort"
    /\ (call.op = "igt_fb_mod_to_tiling" /\ BadModifier) => ret.st = "abort"
    /\ (call.op = "igt_fb_tiling_to_mod" /\ call.tiling \notin Tilings) =>
          ret.st = "abort"
    /\ (call.op = "igt_format_str" /\ BadFormat) =>
          ret.st = "ok" /\ ret.val = "invalid"

\* the part of C12 that the code keeps: apart from igt_get_fb_tile_size
\* with Yf and a bpp of no class on a device that is not Intel (the test is
\* skipped before the bpp is looked at), and from
\* igt_create_bo_with_dimensions with a single-plane format (the store
\* through the NULL offsets pointer comes before the modifier is looked at),
\* unknown input ends in a failed assertion and returns nothing
C12_AbortsWhereChecked ==
    /\ (call.op = "igt_calc_fb_size" /\ (BadFormat \/ BadModifier)) =>
          ret.st = "abort"
    /\ (call.op = "igt_create_fb_with_bo_size"
        /\ (BadFormat \/ BadModifier)) =>
          halt = "abort" /\ bos = <<>> /\ fb.fb_id = 0
    /\ (call.op = "igt_create_bo_with_dimensions"
        /\ (BadFormat \/ BadModifier)) =>
          /\ halt \in {"abort", "crash"} /\ bos = <<>> /\ ret.val = 0
          /\ halt = "crash" => (~BadFormat /\ SinglePlane(call.format))
    /\ (call.op = "igt_drm_format_to_bpp" /\ BadFormat) => ret.st = "abort"
    /\ (call.op = "igt_get_fb_tile_size" /\ (BadModifier \/ BadYfBpp)) =>
          /\ ret.st \in {"abort", "skip"}
          /\ ret.st = "skip" => (~BadModifier /\ ~is_i915_device(dev))
    /\ (call.op = "igt_fb_mod_to_tiling" /\ BadModifier) => ret.st = "abort"
    /\ (call.op = "igt_fb_tiling_to_mod" /\ call.tiling \notin Tilings) =>
          ret.st = "abort"
    /\ (call.op = "igt_format_str" /\ BadFormat) =>
          ret.st = "ok" /\ ret.val = "invalid"

C12_Witness ==
    /\ call.op = "igt_create_bo_with_dimensions" /\ BadModifier
    /\ call.format = "XRGB8888" /\ halt = "crash" /\ bos = <<>>

(***************************************************************************)
(* struct igt_fb belongs to the caller.  SpecRetag is the lifecycle with a *)
(* caller that writes another format code into fb->drm_format of a planar  *)
(* framebuffer: the only way a multi-plane framebuffer that is not NV12    *)
(* reaches the conversions, the registry holding no other planar format.   *)
(***************************************************************************)
\* a planar code the registry does not hold, and a packed one it holds
ForeignFormats == { "NV21", "XRGB8888" }

CallerSetsFormat ==
    /\ halt = "run"
    /\ FbLive
    /\ fb.num_planes > 1 /\ fb.drm_format = DRM_FORMAT_NV12
    /\ \E format \in ForeignFormats :
           /\ fb' = [fb EXCEPT !.drm_format = format]
           /\ call' = [NoCall EXCEPT !.op = "caller_sets_format",
                                     !.format = format]
    /\ log' = <<>>
    /\ UNCHANGED <<dev, ret, halt, bos, kms, maps, surfs, ctxs, nviews>>

NextRetag ==
    \/ IgtCreateFbWithBoSize
    \/ IgtGetCairoSurface
    \/ IgtGetCairoCtx
    \/ Draw
    \/ IgtPutCairoCtx
    \/ IgtRemoveFb
    \/ CallerSetsFormat

SpecRetag == Init /\ [][NextRetag]_vars

\* a library call on a multi-plane framebuffer that is not NV12
ForeignPlanarCall ==
    /\ halt = "run" /\ fb.num_planes > 1
    /\ fb.drm_format # DRM_FORMAT_NV12
    /\ call'.op \in { "igt_get_cairo_surface", "igt_get_cairo_ctx",
                      "igt_put_cairo_ctx", "igt_remove_fb" }

\* C13: on a multi-plane framebuffer that is not NV12 neither conversion
\* runs: an acquisition ends in a failed assertion and leaves no view, a
\* release ends in a failed assertion before the planar buffer, the shadow
\* or the framebuffer's object is written.
C13_NoConversionUnlessNv12 ==
    [][ ForeignPlanarCall =>
          /\ ~HasEvent(log', "convert_nv12_to_rgb24")
          /\ ~HasEvent(log', "convert_rgb24_to_nv12")
          /\ (call'.op \in GetCallOp /\ fb.cairo_surface = NULL) =>
                /\ halt' = "abort"
                /\ fb'.cairo_surface = NULL /\ surfs' = surfs
          /\ HasEvent(log', "release") =>
                /\ halt' = "abort"
                /\ \A h \in DOMAIN bos :
                      h \in DOMAIN bos' /\ bos'[h].px = bos[h].px ]_vars

C13_Witness ==
    /\ halt = "abort" /\ call.op = "igt_put_cairo_ctx"
    /\ fb.num_planes > 1 /\ fb.drm_format = "XRGB8888"
    /\ HasEvent(log, "release") /\ nviews = 1
    /\ ~HasEvent(log, "convert_rgb24_to_nv12")

(***************************************************************************)
(* The conversions at byte level.  convert_nv12_to_rgb24 walks 1x2 pixel   *)
(* blocks and then the odd last row; the sets below are the byte indices   *)
(* it reads from the temporary copy of the planar buffer and the byte      *)
(* indices it writes to the packed buffer.                                 *)
(***************************************************************************)
\* framebuffer widths and heights 1..MaxConvDim are decoded
MaxConvDim == 9
ConvDims == 1..MaxConvDim
\* sysconf(_SC_PAGESIZE)
PageSize == 4096

\* block rows that also take the odd last row as a 1x2 block
DecodeBlockRows_ceil(height) == 0..((height + 1) \div 2 - 1)

\* for (i = 0; i < fb->height / 2; i++)
DecodeBlockRows(height) == 0..(height \div 2 - 1)

\* uv[j & ~1] and uv[j | 1]
ChromaCols(j) == { j - (j % 2), (j - (j % 2)) + 1 }

\* y[j] and y[j + planar_stride] of the blocks, y[j] of the last row
Nv12LumaReads(width, height, linear) ==
    { linear.offsets[1] + (2 * i + k) * linear.stride + j :
        i \in DecodeBlockRows(height), k \in 0..1, j \in 0..(width - 1) }
    \cup
    { linear.offsets[1] + 2 * (height \div 2) * linear.stride + j :
        j \in IF height % 2 = 1 THEN 0..(width - 1) ELSE {} }

\* uv[j & ~1] and uv[j | 1] of the blocks and of the last row
Nv12ChromaReads(width, height, linear) ==
    UNION { { linear.offsets[2] + i * linear.stride + c : c \in ChromaCols(j) } :
              i \in DecodeBlockRows(height)
                      \cup (IF height % 2 = 1 THEN {height \div 2} ELSE {}),
              j \in 0..(width - 1) }

\* rgb24[j * 4 + c] and rgb24[j * 4 + c + rgb24_stride], c = 0, 1, 2
Rgb24Writes(width, height, rgb24) ==
    { (2 * i + k) * rgb24.stride + j * 4 + c :
        i \in DecodeBlockRows(height), k \in 0..1, j \in 0..(width - 1),
        c \in 0..2 }
    \cup
    { 2 * (height \div 2) * rgb24.stride + j * 4 + c :
        j \in (IF height % 2 = 1 THEN 0..(width - 1) ELSE {}), c \in 0..2 }

\* blit->rgb24.stride and blit->rgb24.size
ConvertRgb24(width, height) ==
    [stride |-> ALIGN(width * 4, 16),
     size |-> ALIGN(ALIGN(width * 4, 16) * height, PageSize)]

\* blit->linear of a framebuffer laid out by calc_fb_size_planar: the linear
\* shadow of setup_linear_mapping for Y and Yf tiling, the framebuffer's own
\* layout otherwise
ConvertLinear(d, width, height, tiling) ==
    IF tiling \in { LOCAL_I915_FORMAT_MOD_Y_TILED,
                    LOCAL_I915_FORMAT_MOD_Yf_TILED }
    THEN calc_fb_size_planar(d, width, height, format_desc[DRM_FORMAT_NV12],
                             LOCAL_DRM_FORMAT_MOD_NONE)
    ELSE calc_fb_size_planar(d, width, height, format_desc[DRM_FORMAT_NV12],
                             tiling)

\* sample levels of a byte: every LevelStep-th value and the range ends of
\* limited-range video
LevelStep == 8
Levels == { v \in 0..255 : v % LevelStep = 0 } \cup {16, 128, 235, 255}

\* y0 + r_, y0 + g_, y0 + b_ before clamprgb, in thousandths
DecodedValue(px) ==
    << 1164 * (px[1] - 16) + 1793 * (px[3] - 128),
       1164 * (px[1] - 16) - 213 * (px[2] - 128) - 533 * (px[3] - 128),
       1164 * (px[1] - 16) + 2112 * (px[2] - 128) >>

\* create_cairo_surface__convert on an NV12 framebuffer of an i915 device
\* whose layout calc_fb_size_planar computed: the decode at byte level
ConvertNv12ToRgb24 ==
    /\ call.op = "none"
    /\ is_i915_device(dev)
    /\ \E width \in ConvDims, height \in ConvDims, tiling \in Modifiers :
           /\ calc_fb_size_planar(dev, width, height,
                                  format_desc[DRM_FORMAT_NV12], tiling).st = "ok"
           /\ call' = [NoCall EXCEPT !.op = "convert_nv12_to_rgb24",
                                     !.width = width, !.height = height,
                                     !.format = DRM_FORMAT_NV12,
                                     !.tiling = tiling]
           /\ ret' = ValueRet("ok",
                  [linear |-> ConvertLinear(dev, width, height, tiling),
                   rgb24 |-> ConvertRgb24(width, height),
                   luma |-> Nv12LumaReads(width, height,
                                ConvertLinear(dev, width, height, tiling)),
                   chroma |-> Nv12ChromaReads(width, height,
                                  ConvertLinear(dev, width, height, tiling)),
                   writes |-> Rgb24Writes(width, height,
                                  ConvertRgb24(width, height))])
           /\ UNCHANGED <<dev, lifeVars>>

\* a view acquired and released without drawing: one pixel of the planar
\* buffer goes through convert_nv12_to_rgb24 and back through
\* convert_rgb24_to_nv12
DecodeThenEncode ==
    /\ call.op = "none"
    /\ is_i915_device(dev)
    /\ \E y \in Levels, cb \in Levels, cr \in Levels :
           /\ call' = [NoCall EXCEPT !.op = "decode_encode",
                                     !.format = DRM_FORMAT_NV12]
           /\ ret' = ValueRet("ok",
                  [nv12 |-> <<y, cb, cr>>,
                   value |-> DecodedValue(<<y, cb, cr>>),
                   rgb24 |-> nv12_to_rgb24(<<y, cb, cr>>),
                   back |-> rgb24_to_nv12(nv12_to_rgb24(<<y, cb, cr>>))])
           /\ UNCHANGED <<dev, lifeVars>>

NextConvert == ConvertNv12ToRgb24 \/ DecodeThenEncode

SpecConvert == Init /\ [][NextConvert]_vars

Within(S, lo, hi) == \A x \in S : lo <= x /\ x < hi

\* C14: for an NV12 framebuffer of any width and height from 1 up, odd ones
\* included, laid out by calc_fb_size_planar, every byte
\* convert_nv12_to_rgb24 reads lies inside the planar buffer of linear.size
\* bytes, luma reads inside the luma plane and chroma reads inside the chroma
\* plane, and every byte it writes lies inside the packed buffer of
\* rgb24.size bytes.
C14_DecodeInBounds ==
    call.op = "convert_nv12_to_rgb24" =>
        /\ ret.val.luma # {} /\ ret.val.chroma # {} /\ ret.val.writes # {}
        /\ Within(ret.val.luma, ret.val.linear.offsets[1],
                  ret.val.linear.offsets[2])
        /\ Within(ret.val.chroma, ret.val.linear.offsets[2],
                  ret.val.linear.size)
        /\ Within(ret.val.luma \cup ret.val.chroma, 0, ret.val.linear.size)
        /\ Within(ret.val.writes, 0, ret.val.rgb24.size)

\* the 9x9 Y-tiled framebuffer: the odd last row reads chroma row 4 up to
\* column 9 of the linear shadow
C14_Witness ==
    /\ call.op = "convert_nv12_to_rgb24"
    /\ call.width = 9 /\ call.height = 9
    /\ call.tiling = LOCAL_I915_FORMAT_MOD_Y_TILED
    /\ ret.val.linear.stride = 64 /\ ret.val.linear.size = 896
    /\ ret.val.linear.offsets[2] + 4 * 64 + 9 \in ret.val.chroma
    /\ 8 * 64 + 8 \in ret.val.luma
    /\ 8 * ret.val.rgb24.stride + 8 * 4 + 2 \in ret.val.writes

\* the decoded R, G and B need no clamping
NoClamping(value) == \A c \in 1..3 : 0 <= value[c] /\ value[c] <= 255000

\* C15: a view of an NV12 framebuffer acquired and released without drawing
\* leaves every luma byte within 2 of its previous value, for contents whose
\* decoded R, G and B need no clamping.
C15_LumaRoundTrip ==
    (call.op = "decode_encode" /\ NoClamping(ret.val.value)) =>
        /\ ret.val.back[1] - ret.val.nv12[1] <= 2
        /\ ret.val.nv12[1] - ret.val.back[1] <= 2

\* a coloured pixel that needs no clamping and whose luma comes back changed
C15_Witness ==
    /\ call.op = "decode_encode" /\ NoClamping(ret.val.value)
    /\ ret.val.nv12[2] # 128 /\ ret.val.nv12[3] # 128
    /\ ret.val.back[1] # ret.val.nv12[1]

\* C16: igt_fb_mod_to_tiling and igt_fb_tiling_to_mod are mutually inverse
\* bijections between the modifiers NONE, X_TILED, Y_TILED, Yf_TILED and the
\* tiling constants NONE, X, Y, Yf: each maps its four values onto the four
\* of the other, and converting the result back gives the argument.
C16_ModTilingInverse ==
    /\ (call.op = "igt_fb_mod_to_tiling" /\ call.tiling \in Modifiers) =>
          /\ ret.st = "ok" /\ ret.val \in Tilings
          /\ igt_fb_tiling_to_mod(ret.val) = call.tiling
          /\ \A m \in Modifiers :
                igt_fb_mod_to_tiling(m) = ret.val => m = call.tiling
    /\ (call.op = "igt_fb_tiling_to_mod" /\ call.tiling \in Tilings) =>
          /\ ret.st = "ok" /\ ret.val \in Modifiers
          /\ igt_fb_mod_to_tiling(ret.val) = call.tiling
          /\ \A t \in Tilings :
                igt_fb_tiling_to_mod(t) = ret.val => t = call.tiling

C16_Witness ==
    /\ call.op = "igt_fb_tiling_to_mod" /\ call.tiling = I915_TILING_Yf
    /\ ret.val = LOCAL_I915_FORMAT_MOD_Yf_TILED
    /\ ret.val # call.tiling
    /\ igt_fb_mod_to_tiling(ret.val) = I915_TILING_Yf

\* C17: igt_bpp_depth_to_drm_format either fails hard or returns the code
\* of a single-plane RGB registry format whose bpp and depth equal the
\* arguments, so that igt_drm_format_to_bpp of the result is bpp.
C17_RgbFormatOrFail ==
    call.op = "igt_bpp_depth_to_drm_format" =>
        \/ ret.st = "abort"
        \/ /\ ret.val \in Formats
           /\ format_desc[ret.val].planes <= 1
           /\ format_desc[ret.val].bpp = call.bpp
           /\ format_desc[ret.val].depth = call.depth
           /\ igt_drm_format_to_bpp(ret.val) = call.bpp

\* what the lookup keeps for every pair: a failed assertion, or a registry
\* format of this bpp and depth, of whatever kind
C17_MatchOrFail ==
    call.op = "igt_bpp_depth_to_drm_format" =>
        \/ ret.st = "abort"
           /\ \A f \in Formats : format_desc[f].bpp # call.bpp
                                   \/ format_desc[f].depth # call.depth
        \/ /\ ret.st = "ok" /\ ret.val \in Formats
           /\ format_desc[ret.val].bpp = call.bpp
           /\ format_desc[ret.val].depth = call.depth
           /\ igt_drm_format_to_bpp(ret.val) = call.bpp

\* bpp 32 with depth -1 is answered with the two-plane YUV format
C17_Witness ==
    /\ call.op = "igt_bpp_depth_to_drm_format"
    /\ call.bpp = 32 /\ call.depth = -1
    /\ ret.st = "ok" /\ ret.val = DRM_FORMAT_NV12
    /\ format_desc[ret.val].planes = 2

\* the layout igt_create_fb_with_bo_size calculates for its arguments
CalculatedLayout ==
    igt_calc_fb_size(dev, call.width, call.height, call.format, call.tiling)

\* the size and the stride the creating call is to use
ChosenSize == IF call.size = 0 THEN CalculatedLayout.size ELSE call.size
ChosenStride ==
    IF call.stride = 0 THEN CalculatedLayout.stride ELSE call.stride

\* the creating call allocated a gem object itself
CreatedGemBo ==
    /\ call.op = "igt_create_fb_with_bo_size"
    /\ call.format \in Formats
    /\ WantsGemBo(format_desc[call.format], call.tiling, call.size,
                  call.stride)
    /\ HasEvent(log, "gem_create") /\ 1 \in DOMAIN bos

MaxPipes == 2
MaxOutputs == 2

\* output->config: no connector, a disconnected one, or a connected one
\* with any mask over the pipes
OutputConfigs ==
    { [connector |-> NULL, connection |-> "none",
       valid_crtc_idx_mask |-> Pow2(MaxPipes) - 1],
      [connector |-> 1, connection |-> "disconnected",
       valid_crtc_idx_mask |-> Pow2(MaxPipes) - 1] }
    \cup { [connector |-> 1, connection |-> "connected",
            valid_crtc_idx_mask |-> m] : m \in 0..(Pow2(MaxPipes) - 1) }

igt_output_is_connected(output) ==
    IF output.connector = NULL THEN FALSE
    ELSE output.connection = "connected"

\* igt_output_is_connected(output) && (mask & (1 << pipe))
igt_pipe_connector_valid(pipe, output) ==
    /\ igt_output_is_connected(output)
    /\ (output.valid_crtc_idx_mask \div Pow2(pipe)) % 2 = 1

\* a step that moves to the next pipe every time
StepPipe_always(pipe, con, n_outputs) == pipe + 1

\* the increment: con__ + 1 < n_outputs ? con__ + 1 : (pipe = pipe + 1, 0)
StepPipe(pipe, con, n_outputs) ==
    IF con + 1 < n_outputs THEN pipe ELSE pipe + 1
StepCon(con, n_outputs) ==
    IF con + 1 < n_outputs THEN con + 1 ELSE 0

InLoop(st) ==
    /\ call.op = "for_each_pipe_with_valid_output"
    /\ ret.st = st

\* int con__ = pipe = 0
ForEachEnter ==
    /\ call.op = "none"
    /\ \E n_pipes \in 0..MaxPipes, n_outputs \in 0..MaxOutputs :
         \E outputs \in [1..n_outputs -> OutputConfigs] :
           call' = [op |-> "for_each_pipe_with_valid_output",
                    n_pipes |-> n_pipes, n_outputs |-> n_outputs,
                    outputs |-> outputs]
    /\ ret' = [st |-> "cond", pipe |-> 0, con |-> 0]
    /\ UNCHANGED <<dev, lifeVars>>

\* pipe < igt_display_get_n_pipes(display) && con__ < display->n_outputs
ForEachCond ==
    /\ InLoop("cond")
    /\ ret' = [ret EXCEPT !.st = IF ret.pipe < call.n_pipes
                                    /\ ret.con < call.n_outputs
                                 THEN "if" ELSE "done"]
    /\ UNCHANGED <<dev, call, lifeVars>>

\* for_each_if (output = &outputs[con__], igt_pipe_connector_valid(...))
ForEachIf ==
    /\ InLoop("if")
    /\ log' = Append(log, Ev("consider", <<ret.pipe, ret.con>>))
    /\ ret' = [ret EXCEPT !.st =
                  IF igt_pipe_connector_valid(ret.pipe,
                                              call.outputs[ret.con + 1])
                  THEN "body" ELSE "step"]
    /\ UNCHANGED <<dev, call, halt, fb, bos, kms, maps, surfs, ctxs, nviews>>

\* the body runs to its end
ForEachBody ==
    /\ InLoop("body")
    /\ log' = Append(log, Ev("body", <<ret.pipe, ret.con>>))
    /\ ret' = [ret EXCEPT !.st = "step"]
    /\ UNCHANGED <<dev, call, halt, fb, bos, kms, maps, surfs, ctxs, nviews>>

\* the body leaves the loop with break
ForEachBreak ==
    /\ InLoop("body")
    /\ log' = Append(log, Ev("break", <<ret.pipe, ret.con>>))
    /\ ret' = [ret EXCEPT !.st = "done"]
    /\ UNCHANGED <<dev, call, halt, fb, bos, kms, maps, surfs, ctxs, nviews>>

ForEachStep ==
    /\ InLoop("step")
    /\ ret' = [ret EXCEPT !.st = "cond",
                          !.pipe = StepPipe(ret.pipe, ret.con, call.n_outputs),
                          !.con = StepCon(ret.con, call.n_outputs)]
    /\ UNCHANGED <<dev, call, lifeVars>>

NextLoop ==
    \/ ForEachEnter
    \/ ForEachCond
    \/ ForEachIf
    \/ ForEachBody
    \/ ForEachBreak
    \/ ForEachStep

\* the process keeps running: a step that can be taken is taken
SpecLoop == Init /\ [][NextLoop]_vars /\ WF_vars(NextLoop)

\* the combinations in pipe-major order from the k-th on, each followed by
\* a run of the body where the output is connected and the pipe's bit is set
RECURSIVE PipeMajorFrom(_)
PipeMajorFrom(k) ==
    IF k >= call.n_pipes * call.n_outputs THEN <<>>
    ELSE LET pipe == k \div call.n_outputs
             con == k % call.n_outputs
             o == call.outputs[con + 1]
         IN <<Ev("consider", <<pipe, con>>)>>
            \o (IF o.connector # NULL /\ o.connection = "connected"
                   /\ (o.valid_crtc_idx_mask \div Pow2(pipe)) % 2 = 1
                THEN <<Ev("body", <<pipe, con>>)>> ELSE <<>>)
            \o PipeMajorFrom(k + 1)

\* C19: for_each_pipe_with_valid_output ends for every number of pipes and
\* outputs from 0 up and, when its body does not break, looks at every
\* combination of pipe and output exactly once, in pipe-major order, and
\* runs the body exactly for those whose output is connected and has the
\* pipe's bit set in valid_crtc_idx_mask.
C19_LoopVisitsAll ==
    /\ (call.op = "for_each_pipe_with_valid_output") ~> InLoop("done")
    /\ []((InLoop("done") /\ ~HasEvent(log, "break")) =>
             log = PipeMajorFrom(0))

\* two pipes and two outputs: all four combinations were looked at, the
\* body ran for some and was passed over for others
C19_Witness ==
    /\ InLoop("done") /\ ~HasEvent(log, "break")
    /\ call.n_pipes = 2 /\ call.n_outputs = 2
    /\ CountEvent(log, "consider") = 4
    /\ CountEvent(log, "body") = 2
    /\ log[1] = Ev("consider", <<0, 0>>) /\ log[2] = Ev("consider", <<0, 1>>)

\* the events of one igt_remove_fb call on framebuffer f, in log l: the
\* framebuffer object is removed once, after everything else but the close
\* of f's buffer object, which follows it at once
RemovalOrder(l, f) ==
    /\ \A i \in 1..Len(l) :
          l[i].e = "drmModeRmFB" =>
              /\ l[i].a = f.fb_id
              /\ \A j \in 1..(i - 1) :
                    l[j].e # "drmModeRmFB"
                    /\ l[j] # Ev("gem_close", f.gem_handle)
              /\ \A j \in (i + 1)..Len(l) :
                    l[j] = Ev("gem_close", f.gem_handle)
    /\ \A i \in 1..Len(l) :
          l[i] = Ev("gem_close", f.gem_handle) =>
              i = Len(l) /\ i > 1 /\ l[i - 1].e = "drmModeRmFB"

\* C20: igt_remove_fb destroys a still-cached view first, so that its
\* write-back happens while the framebuffer's buffer object exists, then
\* removes the KMS framebuffer object, then closes the buffer object; with
\* no cached view the first step does nothing.
C20_RemoveOrder ==
    [][ call'.op = "igt_remove_fb" =>
          /\ RemovalOrder(log', fb)
          /\ fb.cairo_surface # NULL =>
                /\ log'[1] = Ev("release", fb.cairo_surface)
                /\ fb.cairo_surface \notin DOMAIN surfs'
                /\ \A i \in 1..Len(log') :
                      log'[i].e \in { "convert_rgb24_to_nv12", "blit",
                                      "gem_munmap", "release" } =>
                          \E j \in (i + 1)..Len(log') :
                              log'[j].e = "drmModeRmFB"
                          \/ halt' # "run"
          /\ fb.cairo_surface = NULL =>
                log' = << Ev("drmModeRmFB", fb.fb_id),
                          Ev("gem_close", fb.gem_handle) >>
          /\ halt' = "run" =>
                /\ log'[Len(log')] = Ev("gem_close", fb.gem_handle)
                /\ fb.fb_id \notin kms'
                /\ fb.gem_handle \notin DOMAIN bos' ]_vars

\* an NV12 framebuffer removed with its view still cached: the view was
\* encoded back, then the framebuffer object and the buffer object went
C20_Witness ==
    /\ call.op = "igt_remove_fb" /\ halt = "run"
    /\ fb.num_planes > 1 /\ fb.cairo_surface = NULL
    /\ log[1].e = "release"
    /\ HasEvent(log, "convert_rgb24_to_nv12")
    /\ log[Len(log) - 1] = Ev("drmModeRmFB", fb.fb_id)
    /\ log[Len(log)] = Ev("gem_close", fb.gem_handle)
    /\ bos = <<>> /\ kms = {}

\* igt_create_bo_with_dimensions was given a registry format and one of the
\* four modifiers on a device that can allocate what is asked for
AllocatableCall ==
    /\ call.op = "igt_create_bo_with_dimensions"
    /\ call.format \in Formats /\ call.tiling \in Modifiers
    /\ is_i915_device(dev)
       \/ ~WantsGemBo(format_desc[call.format], call.tiling, 0, call.stride)

\* C21: igt_create_bo_with_dimensions, which passes no offsets array,
\* allocates a buffer and returns its handle for every registry format,
\* every modifier of NONE, X, Y, Yf and every stride, and create_bo_for_fb
\* neither writes to nor reads from the absent array.
C21_NoOffsetsNeeded ==
    AllocatableCall =>
        /\ halt = "run"
        /\ ret.val > 0 /\ ret.val \in DOMAIN bos
        /\ ~HasEvent(log, "null_offsets")

\* what the call keeps: where create_bo_for_fb takes the dumb-buffer branch
\* the array is not touched and the handle of a buffer is returned; in the
\* other branch the array is accessed for every format
C21_DumbBranchOnly ==
    AllocatableCall =>
        IF WantsGemBo(format_desc[call.format], call.tiling, 0, call.stride)
        THEN HasEvent(log, "null_offsets")
        ELSE /\ halt = "run" /\ ~HasEvent(log, "null_offsets")
             /\ ret.val > 0 /\ ret.val \in DOMAIN bos

\* NV12 on an i915 device: the load of offsets[1] for the first memset goes
\* through the NULL pointer and the process faults with the buffer allocated
C21_Witness ==
    /\ AllocatableCall /\ call.format = DRM_FORMAT_NV12
    /\ call.tiling = LOCAL_DRM_FORMAT_MOD_NONE /\ call.stride = 0
    /\ HasEvent(log, "gem_create") /\ HasEvent(log, "null_offsets")
    /\ halt = "crash" /\ ret.val = 0

\* the creating call was given a registry format and a known modifier
KnownCreate ==
    /\ call.op = "igt_create_fb_with_bo_size"
    /\ call.format \in Formats /\ call.tiling \in Modifiers

\* linear tiling, size 0, stride 0 and a format that is not multi-plane
PlainLinearCreate ==
    /\ call.tiling = LOCAL_DRM_FORMAT_MOD_NONE
    /\ call.size = 0 /\ call.stride = 0
    /\ format_desc[call.format].planes <= 1

\* C22: create_bo_for_fb allocates a dumb buffer and reports is_dumb true
\* exactly when the tiling is linear, size and stride are both 0 and the
\* format is not multi-plane; otherwise it reports is_dumb false and, on an
\* i915 device, allocates a gem buffer of the computed or given size and
\* stride, while on another device it returns no buffer and the test is
\* skipped.
C22_DumbExactlyWhenPlain ==
    KnownCreate =>
        IF PlainLinearCreate
        THEN /\ halt = "run" /\ fb.is_dumb
             /\ fb.gem_handle \in DOMAIN bos /\ bos[fb.gem_handle].dumb
             /\ HasEvent(log, "kmstest_dumb_create")
             /\ ~HasEvent(log, "gem_create")
        ELSE /\ ~HasEvent(log, "kmstest_dumb_create")
             /\ halt = "run" => ~fb.is_dumb
             /\ IF is_i915_device(dev)
                THEN /\ HasEvent(log, "gem_create")
                     /\ 1 \in DOMAIN bos /\ ~bos[1].dumb
                     /\ bos[1].size = ChosenSize
                     /\ HasEvent(log, "gem_set_tiling") =>
                           bos[1].stride = ChosenStride
                ELSE /\ halt = "skip" /\ bos = <<>>
                     /\ fb.gem_handle = 0

\* a linear single-plane framebuffer with a given size only: a gem buffer
\* of that size, not a dumb one
C22_Witness ==
    /\ KnownCreate /\ halt = "run" /\ is_i915_device(dev)
    /\ call.tiling = LOCAL_DRM_FORMAT_MOD_NONE
    /\ call.size = BoSizeArg /\ call.stride = 0
    /\ format_desc[call.format].planes = 0
    /\ ~fb.is_dumb /\ ~bos[fb.gem_handle].dumb
    /\ bos[fb.gem_handle].size = BoSizeArg

(***************************************************************************)
(* Helpers of the tests.  As for the loop above, call holds the arguments  *)
(* of the helper that was entered, ret its local variables and position,   *)
(* log the calls it made.                                                  *)
(***************************************************************************)
BROADCAST_RGB_AUTO == 0
BROADCAST_RGB_FULL == 1
BROADCAST_RGB_16_235 == 2
BroadcastRgbModes ==
    { BROADCAST_RGB_AUTO, BROADCAST_RGB_FULL, BROADCAST_RGB_16_235 }

\* values 0..MaxPropertyValue are read from the property
MaxPropertyValue == 4

\* a successor that keeps the limited range
get_broadcast_rgb_mode_fixed(mode) ==
    CASE mode = BROADCAST_RGB_AUTO -> BROADCAST_RGB_FULL
      [] mode = BROADCAST_RGB_FULL -> BROADCAST_RGB_16_235
      [] mode = BROADCAST_RGB_16_235 -> BROADCAST_RGB_16_235
      [] OTHER -> BROADCAST_RGB_AUTO

get_broadcast_rgb_mode(mode) ==
    CASE mode = BROADCAST_RGB_AUTO -> BROADCAST_RGB_FULL
      [] mode = BROADCAST_RGB_FULL -> BROADCAST_RGB_16_235
      [] mode = BROADCAST_RGB_16_235 -> BROADCAST_RGB_AUTO
      [] OTHER -> BROADCAST_RGB_AUTO

\* test_active_property up to the choice of the new mode: val1 is read from
\* the connector, mode is what the test will set
ActivePropertyRead ==
    /\ call.op = "none"
    /\ \E val1 \in 0..MaxPropertyValue :
           /\ call' = [op |-> "test_active_property", val1 |-> val1,
                       mode |-> get_broadcast_rgb_mode(val1)]
           /\ ret' = [st |-> "set", val |-> val1]
    /\ UNCHANGED <<dev, lifeVars>>

\* the property is set to mode, the commit with ALLOW_MODESET is accepted,
\* val2 is read back and igt_assert(val1 != val2) is evaluated
ActivePropertyCommit ==
    /\ call.op = "test_active_property" /\ ret.st = "set"
    /\ ret' = [st |-> IF call.val1 # call.mode THEN "ok" ELSE "abort",
               val |-> call.mode]
    /\ log' = Append(log, Ev("kmstest_set_connector_broadcast_rgb",
                             call.mode))
    /\ UNCHANGED <<dev, call, halt, fb, bos, kms, maps, surfs, ctxs, nviews>>

\* int timeout = 5
PsrTimeout == 5

\* a poll that looks at the hardware only
psr_active_hw(disabled, hw) == hw

\* running_with_psr_disabled || strstr(buf, "HW Enabled & Active bit: yes\n")
psr_active(disabled, hw) == disabled \/ hw

\* wait_psr_entry is entered; running_with_psr_disabled is set or not
WaitPsrEntry ==
    /\ call.op = "none"
    /\ \E disabled \in BOOLEAN :
           call' = [op |-> "wait_psr_entry",
                    running_with_psr_disabled |-> disabled]
    /\ ret' = [st |-> "while", timeout |-> PsrTimeout, val |-> FALSE]
    /\ UNCHANGED <<dev, lifeVars>>

\* while (timeout--)
WaitPsrWhile ==
    /\ call.op = "wait_psr_entry" /\ ret.st = "while"
    /\ ret' = [st |-> IF ret.timeout # 0 THEN "poll" ELSE "return",
               timeout |-> ret.timeout - 1, val |-> FALSE]
    /\ UNCHANGED <<dev, call, lifeVars>>

\* if (psr_active(data)) return true; hw is what the status file says
WaitPsrPoll ==
    /\ call.op = "wait_psr_entry" /\ ret.st = "poll"
    /\ \E hw \in BOOLEAN :
         LET active == psr_active(call.running_with_psr_disabled, hw)
         IN /\ log' = Append(log, Ev("psr_active", IF active THEN 1 ELSE 0))
            /\ ret' = [ret EXCEPT !.st = IF active THEN "return" ELSE "sleep",
                                  !.val = active]
    /\ UNCHANGED <<dev, call, halt, fb, bos, kms, maps, surfs, ctxs, nviews>>

\* sleep(1)
WaitPsrSleep ==
    /\ call.op = "wait_psr_entry" /\ ret.st = "sleep"
    /\ log' = Append(log, Ev("sleep", 1))
    /\ ret' = [ret EXCEPT !.st = "while"]
    /\ UNCHANGED <<dev, call, halt, fb, bos, kms, maps, surfs, ctxs, nviews>>

NextTests ==
    \/ ActivePropertyRead
    \/ ActivePropertyCommit
    \/ WaitPsrEntry
    \/ WaitPsrWhile
    \/ WaitPsrPoll
    \/ WaitPsrSleep

\* the process keeps running: a step that can be taken is taken
SpecTests == Init /\ [][NextTests]_vars /\ WF_vars(NextTests)

\* C23: for each of AUTO, FULL and 16_235 get_broadcast_rgb_mode gives a
\* valid mode other than its argument, so that the value read back after
\* the commit differs from the one read before; the three modes form the
\* one cycle AUTO, FULL, 16_235, AUTO; any other input gives AUTO.
C23_BroadcastRgbCycle ==
    call.op = "test_active_property" =>
        /\ call.val1 \in BroadcastRgbModes =>
              /\ call.mode \in BroadcastRgbModes
              /\ call.mode # call.val1
              /\ get_broadcast_rgb_mode(call.mode) \notin
                     {call.val1, call.mode}
              /\ get_broadcast_rgb_mode(get_broadcast_rgb_mode(call.mode))
                     = call.val1
              /\ call.val1 = BROADCAST_RGB_AUTO =>
                     call.mode = BROADCAST_RGB_FULL
              /\ ret.st # "set" => (ret.st = "ok" /\ ret.val # call.val1)
        /\ call.val1 \notin BroadcastRgbModes =>
              call.mode = BROADCAST_RGB_AUTO

\* the limited range was read, AUTO was set and read back
C23_Witness ==
    /\ call.op = "test_active_property" /\ ret.st = "ok"
    /\ call.val1 = BROADCAST_RGB_16_235
    /\ ret.val = BROADCAST_RGB_AUTO
    /\ log = << Ev("kmstest_set_connector_broadcast_rgb",
                   BROADCAST_RGB_AUTO) >>

WaitPsrReturned == call.op = "wait_psr_entry" /\ ret.st = "return"

\* C24: wait_psr_entry ends after at most 5 polls of the PSR status, having
\* slept one second after each poll that did not see PSR active; it returns
\* true iff a poll saw PSR active, at the first such poll; with
\* running_with_psr_disabled set it returns true on the first poll without
\* sleeping.
C24_WaitPsrEntry ==
    /\ (call.op = "wait_psr_entry") ~> WaitPsrReturned
    /\ [](WaitPsrReturned =>
            /\ CountEvent(log, "psr_active") <= 5
            /\ \A i \in 1..Len(log) :
                  log[i] = Ev("psr_active", 0) =>
                      i < Len(log) /\ log[i + 1] = Ev("sleep", 1)
            /\ \A i \in 1..Len(log) :
                  log[i].e = "sleep" => i > 1 /\ log[i - 1] = Ev("psr_active", 0)
            /\ ret.val <=> \E i \in 1..Len(log) : log[i] = Ev("psr_active", 1)
            /\ \A i \in 1..Len(log) :
                  log[i] = Ev("psr_active", 1) => i = Len(log)
            /\ ~ret.val => CountEvent(log, "psr_active") = 5
            /\ call.running_with_psr_disabled =>
                  ret.val /\ log = << Ev("psr_active", 1) >>)

\* PSR became active at the fifth poll, after four sleeps
C24_Witness ==
    /\ WaitPsrReturned /\ ret.val
    /\ ~call.running_with_psr_disabled
    /\ CountEvent(log, "psr_active") = 5
    /\ CountEvent(log, "sleep") = 4
    /\ log[Len(log)] = Ev("psr_active", 1)

\* the surfaces this step destroyed
Destroyed == (DOMAIN surfs) \ (DOMAIN surfs')
\* the contexts that are live after this step and were created on surface s
LiveOn(s) == { c \in DOMAIN ctxs' : ctxs'[c] = s }

\* C25: over any sequence of igt_get_cairo_ctx, igt_put_cairo_ctx and
\* igt_remove_fb calls on one framebuffer, a second igt_get_cairo_ctx before
\* the first context is put included, a view's surface is destroyed and its
\* release callback run only when no cairo context created on it is still
\* live, and the callback runs once per created view.
C25_ReleaseOnlyUnused ==
    [][ /\ \A s \in Destroyed : LiveOn(s) = {}
        /\ \A i \in 1..Len(log') :
              log'[i].e = "release" =>
                  /\ log'[i].a \in DOMAIN surfs
                  /\ CountEvent(log', "release") = 1
                  /\ LiveOn(log'[i].a) = {} ]_vars

\* what the calls keep: a surface is released at most once, by a call that
\* found it alive, and a put of the only live context leaves no context on
\* the surface it destroys
C25_ReleasedOnce ==
    [][ /\ \A i \in 1..Len(log') :
              log'[i].e = "release" =>
                  /\ log'[i].a \in DOMAIN surfs
                  /\ log'[i].a \notin DOMAIN surfs' \/ halt' # "run"
                  /\ CountEvent(log', "release") = 1
        /\ (call'.op = "igt_put_cairo_ctx" /\ Cardinality(DOMAIN ctxs) = 1) =>
              \A s \in Destroyed : LiveOn(s) = {} ]_vars

\* two contexts were taken, the first was put: the view was released and
\* written back, and the second context is still live on the destroyed
\* surface
C25_Witness ==
    /\ halt = "run" /\ call.op = "igt_put_cairo_ctx"
    /\ HasEvent(log, "release")
    /\ fb.cairo_surface = NULL
    /\ \E c \in DOMAIN ctxs : ctxs[c] \notin DOMAIN surfs

(***************************************************************************)
(* The legacy path of calc_fb_size_packed with the width of its variables: *)
(* stride and size are unsigned int, v is int and is converted to unsigned *)
(* in stride < v and size < v.  A 32-bit unsigned value is the pair of its *)
(* high and low 16 bits.  The two for loops are taken one iteration at a   *)
(* time; ret holds v, stride, size and the position.                       *)
(***************************************************************************)
Half == 65536
U32(n) == << n \div Half, n % Half >>
Add32(a, b) ==
    << (a[1] + b[1] + ((a[2] + b[2]) \div Half)) % Half, (a[2] + b[2]) % Half >>
\* x *= 2
Double32(a) == Add32(a, a)
Lt32(a, b) == a[1] < b[1] \/ (a[1] = b[1] /\ a[2] < b[2])
\* a * n modulo 2^32, for an int n >= 0
RECURSIVE Mul32(_, _)
Mul32(a, n) ==
    IF n = 0 THEN U32(0)
    ELSE Add32(IF n % 2 = 1 THEN a ELSE U32(0), Mul32(Double32(a), n \div 2))

\* widths and heights 1, 2^k and 3 * 2^k for k in 10..MaxLegacyExp
MaxLegacyExp == 15
LegacyDims ==
    {1} \cup UNION { {Pow2(k), 3 * Pow2(k)} : k \in 10..MaxLegacyExp }
LegacyFormats == { "RGB565", "XRGB8888" }

\* calc_fb_size_packed is entered on a device of generation 2 or 3 with a
\* tiled modifier: v = byte_width, stride = 512
LegacyEnter ==
    /\ call.op = "none"
    /\ is_i915_device(dev) /\ intel_gen(dev) <= 3
    /\ \E width \in LegacyDims, height \in LegacyDims,
          format \in LegacyFormats,
          tiling \in Modifiers \ {LOCAL_DRM_FORMAT_MOD_NONE} :
           /\ LegacyPath(dev, tiling)
           /\ igt_get_fb_tile_size(dev, tiling, format_desc[format].bpp).st
                  = "ok"
           /\ call' = [NoCall EXCEPT !.op = "calc_fb_size_packed",
                                     !.width = width, !.height = height,
                                     !.format = format, !.tiling = tiling]
           /\ ret' = [st |-> "stride",
                      v |-> U32(ByteWidth(width, format_desc[format])),
                      byte_width |-> U32(ByteWidth(width, format_desc[format])),
                      stride |-> U32(512), size |-> U32(0)]
    /\ UNCHANGED <<dev, lifeVars>>

\* for (stride = 512; stride < v; stride *= 2); then v = stride * height
\* and size = 1024*1024.  A stride of 0 below v stays 0 in every further
\* iteration.
LegacyStrideLoop ==
    /\ call.op = "calc_fb_size_packed" /\ ret.st = "stride"
    /\ ret' = IF Lt32(ret.stride, ret.v)
              THEN IF ret.stride = U32(0)
                   THEN [ret EXCEPT !.st = "hang"]
                   ELSE [ret EXCEPT !.stride = Double32(@)]
              ELSE [ret EXCEPT !.st = "size",
                               !.v = Mul32(ret.stride, call.height),
                               !.size = U32(1024 * 1024)]
    /\ UNCHANGED <<dev, call, lifeVars>>

\* for (size = 1024*1024; size < v; size *= 2); then both are returned.
\* A size of 0 below v stays 0 in every further iteration.
LegacySizeLoop ==
    /\ call.op = "calc_fb_size_packed" /\ ret.st = "size"
    /\ ret' = IF Lt32(ret.size, ret.v)
              THEN IF ret.size = U32(0)
                   THEN [ret EXCEPT !.st = "hang"]
                   ELSE [ret EXCEPT !.size = Double32(@)]
              ELSE [ret EXCEPT !.st = "done"]
    /\ UNCHANGED <<dev, call, lifeVars>>

NextLegacy == LegacyEnter \/ LegacyStrideLoop \/ LegacySizeLoop

SpecLegacy == Init /\ [][NextLegacy]_vars

InLegacy(st) == call.op = "calc_fb_size_packed" /\ ret.st = st

\* C26: on the legacy path both doubling loops end for every width and
\* height: the stride from 512 and the size from 1 MiB each reach a value
\* that is not below their target (the byte width, and stride * height as
\* the code computes it) in finitely many doublings, without wrapping to 0.
C26_DoublingEnds ==
    call.op = "calc_fb_size_packed" =>
       /\ ret.st # "hang"
       /\ ret.stride # U32(0)
       /\ ret.st \in {"size", "done"} => ~Lt32(ret.stride, ret.byte_width)
       /\ ret.st = "size" => ret.size # U32(0)
       /\ ret.st = "done" => ret.size # U32(0) /\ ~Lt32(ret.size, ret.v)

\* what the loops keep: the stride loop ends for every byte width below
\* 2^31, and the size loop ends whenever stride * height modulo 2^32 is at
\* most 2^31
C26_EndsBelowHalfRange ==
    call.op = "calc_fb_size_packed" =>
       /\ ret.st = "hang" =>
             /\ ret.stride # U32(0) /\ ret.size = U32(0)
             /\ Lt32(<<32768, 0>>, ret.v)
       /\ ret.st = "done" => ~Lt32(ret.size, ret.v)

\* 16384 x 49152 at 32 bits per pixel: the stride is 65536, stride * height
\* is 3 * 2^30, the size doubles from 2^31 to 0 and stays below the target
C26_Witness ==
    /\ InLegacy("hang")
    /\ call.width = 16384 /\ call.height = 49152 /\ call.format = "XRGB8888"
    /\ ret.stride = U32(65536) /\ ret.v = <<49152, 0>>
    /\ ret.size = U32(0)

\* the value of a 32-bit pair modulo a divisor of 65536
Mod32(a, w) == a[2] % w
\* the exponent of a 32-bit power of two
Exp32(a) == CHOOSE e \in 0..31 : a = (IF e < 16 THEN <<0, Pow2(e)>> ELSE <<Pow2(e - 16), 0>>)
\* 2^size_exp >= 2^stride_exp * rows, without forming the product
CoversRows(stride_exp, size_exp, rows) ==
    size_exp >= stride_exp /\ Pow2(size_exp - stride_exp) >= rows
LegacyTile == igt_get_fb_tile_size(dev, call.tiling, format_desc[call.format].bpp)

\* C27: on the legacy path the power-of-two layout covers whole tiles of the
\* tiling in use: the returned stride is a multiple of the tile width that
\* igt_get_fb_tile_size reports for the device and tiling, and the returned
\* size is at least stride * ALIGN(height, tile height), for every width and
\* height.
C27_LegacyCoversTiles ==
    InLegacy("done") =>
       /\ Mod32(ret.stride, LegacyTile.w) = 0
       /\ CoversRows(Exp32(ret.stride), Exp32(ret.size),
                     ALIGN(call.height, LegacyTile.h))

\* what the legacy layout keeps: the stride is a multiple of the tile width,
\* and the size covers stride * height as the code computes it
C27_LegacyCoversRows ==
    InLegacy("done") =>
       /\ Mod32(ret.stride, LegacyTile.w) = 0
       /\ ~Lt32(ret.size, Mul32(ret.stride, call.height))

\* 16384 x 1 at 32 bits per pixel, Y-tiled on a generation 3 device that is
\* not a 915: tiles are 128 x 32, the stride is 65536 and the size 1 MiB,
\* where one row of whole tiles takes 65536 * 32 = 2 MiB
C27_Witness ==
    /\ InLegacy("done")
    /\ intel_gen(dev) = 3 /\ ~IS_915(dev)
    /\ call.tiling = LOCAL_I915_FORMAT_MOD_Y_TILED
    /\ call.width = 16384 /\ call.height = 1 /\ call.format = "XRGB8888"
    /\ LegacyTile.h = 32
    /\ ret.stride = U32(65536) /\ ret.size = U32(1024 * 1024)

====
